---- MODULE Spec2Model ----
(***************************************************************************)
(* A model of emo (redaphid/emo): the tiered lexical search of lib.rs and  *)
(* the memo handlers of main.rs (handle_search, handle_save, handle_erase) *)
(* over the persisted config file; run of main.rs with the AI resolver of  *)
(* ai.rs, token by token; and the once-initialized catalog cell of lib.rs. *)
(*                                                                         *)
(* Text is modelled as sequences of Unicode code points (integers), so     *)
(* that case folding, word splitting, substring containment, hexadecimal   *)
(* decoding and integer parsing are computed as the code computes them.    *)
(* Option<T> is a sequence of length at most one: <<>> is None, <<x>> is   *)
(* Some(x).                                                                *)
(***************************************************************************)
EXTENDS Integers, Sequences, FiniteSets, TLC

VARIABLES catalog, file, last, prev, cell, proc, saves

vars == <<catalog, file, last, prev, cell, proc, saves>>

----------------------------------------------------------------------------
(* Text.                                                                   *)

\* The code point of a character written as a one-character string.
CodeOf(ch) ==
    CASE ch = " " -> 32  [] ch = "+" -> 43  [] ch = "-" -> 45
      [] ch = "0" -> 48  [] ch = "1" -> 49  [] ch = "2" -> 50  [] ch = "3" -> 51
      [] ch = "4" -> 52  [] ch = "5" -> 53  [] ch = "6" -> 54  [] ch = "7" -> 55
      [] ch = "8" -> 56  [] ch = "9" -> 57
      [] ch = "A" -> 65  [] ch = "B" -> 66  [] ch = "C" -> 67  [] ch = "D" -> 68
      [] ch = "E" -> 69  [] ch = "F" -> 70  [] ch = "U" -> 85  [] ch = "Z" -> 90
      [] ch = "a" -> 97  [] ch = "b" -> 98  [] ch = "c" -> 99  [] ch = "d" -> 100
      [] ch = "e" -> 101 [] ch = "f" -> 102 [] ch = "x" -> 120 [] ch = "z" -> 122

\* A string literal: S(<<"a", "b">>) is the text "ab".
S(t) == [i \in 1..Len(t) |-> CodeOf(t[i])]

IsDigit(c) == c >= 48 /\ c <= 57
IsUpper(c) == c >= 65 /\ c <= 90
IsLowerLetter(c) == c >= 97 /\ c <= 122

\* char::is_alphanumeric, on the characters of the model (ASCII and emoji).
IsAlphanumeric(c) == IsDigit(c) \/ IsUpper(c) \/ IsLowerLetter(c)

\* char::is_whitespace, on the characters of the model.
IsWhitespace(c) == c = 32 \/ (c >= 9 /\ c <= 13)

\* str::to_lowercase.
ToLowercase(s) == [i \in 1..Len(s) |-> IF IsUpper(s[i]) THEN s[i] + 32 ELSE s[i]]

\* str::contains(&str): word occurs in text as a contiguous substring.
Contains(text, word) ==
    \E i \in 0..(Len(text) - Len(word)) : SubSeq(text, i + 1, i + Len(word)) = word

RECURSIVE SplitNonAlnumFrom(_, _, _)
SplitNonAlnumFrom(s, i, cur) ==
    IF i > Len(s) THEN <<cur>>
    ELSE IF ~IsAlphanumeric(s[i]) THEN <<cur>> \o SplitNonAlnumFrom(s, i + 1, <<>>)
    ELSE SplitNonAlnumFrom(s, i + 1, Append(cur, s[i]))

\* text.split(|c| !c.is_alphanumeric()): the pieces between separators, empty
\* pieces included.
SplitNonAlnum(s) == SplitNonAlnumFrom(s, 1, <<>>)

RECURSIVE SplitWsFrom(_, _, _)
SplitWsFrom(s, i, cur) ==
    IF i > Len(s) THEN <<cur>>
    ELSE IF IsWhitespace(s[i]) THEN <<cur>> \o SplitWsFrom(s, i + 1, <<>>)
    ELSE SplitWsFrom(s, i + 1, Append(cur, s[i]))

\* str::split_whitespace: the maximal runs of non-whitespace characters.
SplitWhitespace(s) == SelectSeq(SplitWsFrom(s, 1, <<>>), LAMBDA w : w # <<>>)

RECURSIVE TrimStartMatches(_, _)
\* str::trim_start_matches(pat): the prefix pat removed as often as it occurs.
TrimStartMatches(s, pat) ==
    IF Len(pat) > 0 /\ Len(s) >= Len(pat) /\ SubSeq(s, 1, Len(pat)) = pat
    THEN TrimStartMatches(SubSeq(s, Len(pat) + 1, Len(s)), pat)
    ELSE s

----------------------------------------------------------------------------
(* Results: [ok |-> TRUE, val |-> v] is Ok(v), Err(kind) has ok = FALSE.   *)

Ok(v) == [ok |-> TRUE, val |-> v, err |-> "none"]
Err(kind) == [ok |-> FALSE, val |-> 0, err |-> kind]

HexDigitValue(c) ==
    IF IsDigit(c) THEN c - 48
    ELSE IF c >= 65 /\ c <= 70 THEN c - 55
    ELSE IF c >= 97 /\ c <= 102 THEN c - 87
    ELSE 0 - 1

RECURSIVE HexAccumulate(_, _, _)
\* The digit loop of u32::from_str_radix(_, 16).  A value above 0x10FFFF is
\* kept as 0x110000: whether the u32 then overflows or not, char::from_u32
\* rejects it.
HexAccumulate(digits, i, acc) ==
    IF i > Len(digits) THEN Ok(acc)
    ELSE IF HexDigitValue(digits[i]) < 0 THEN Err("InvalidInput")
    ELSE LET v == acc * 16 + HexDigitValue(digits[i])
         IN  HexAccumulate(digits, i + 1, IF v > 1114111 THEN 1114112 ELSE v)

\* u32::from_str_radix(hex_str, 16): an optional '+', then at least one digit.
FromStrRadix16(hex_str) ==
    LET digits == IF Len(hex_str) > 0 /\ hex_str[1] = 43 THEN Tail(hex_str) ELSE hex_str
    IN  IF Len(digits) = 0 THEN Err("InvalidInput") ELSE HexAccumulate(digits, 1, 0)

\* char::from_u32: a Unicode scalar value is at most 0x10FFFF and no surrogate.
CharFromU32(cp) ==
    IF cp > 1114111 \/ (cp >= 55296 /\ cp <= 57343) THEN Err("InvalidInput") ELSE Ok(cp)

\* The prefix "U+" that to_char trims.
UPlus == S(<<"U", "+">>)

\* to_char: the record's character, decoded from its hexadecimal code point.
to_char(emoji) ==
    LET parts == SplitWhitespace(emoji.unicode)
    IN  IF Len(parts) = 0 THEN Err("InvalidInput")
        ELSE LET hex_str == TrimStartMatches(parts[1], UPlus)
                 code_point == FromStrRadix16(hex_str)
             IN  IF ~code_point.ok THEN Err("InvalidInput")
                 ELSE CharFromU32(code_point.val)

----------------------------------------------------------------------------
(* The lexical resolver (lib.rs, search).                                  *)

\* is_exact_word_match: some piece of text between non-alphanumeric
\* characters equals the search word.
is_exact_word_match(text, word) ==
    LET pieces == SplitNonAlnum(text)
    IN  \E k \in 1..Len(pieces) : ToLowercase(pieces[k]) = word

\* let search_words = search_term.split_whitespace().map(to_lowercase).collect()
search_words(search_term) ==
    LET ws == SplitWhitespace(search_term)
    IN  [k \in 1..Len(ws) |-> ToLowercase(ws[k])]

\* The closure all_words_match(text, exact), over the captured search_words.
all_words_match(words, text, exact) ==
    LET lowered == ToLowercase(text)
    IN  \A k \in 1..Len(words) :
            IF exact THEN is_exact_word_match(lowered, words[k])
            ELSE Contains(lowered, words[k])

\* Keyword predicates that take each query word from any keyword entry.
predicatesAcrossKeywords(p, e, search_term, words) ==
    CASE p = 1 -> ToLowercase(e.name) = ToLowercase(search_term)
      [] p = 2 -> all_words_match(words, e.name, TRUE)
      [] p = 3 -> \A w \in 1..Len(words) : \E k \in 1..Len(e.keywords) :
                      all_words_match(<<words[w]>>, e.keywords[k], TRUE)
      [] p = 4 -> all_words_match(words, e.name, FALSE)
      [] p = 5 -> \A w \in 1..Len(words) : \E k \in 1..Len(e.keywords) :
                      all_words_match(<<words[w]>>, e.keywords[k], FALSE)
      [] p = 6 -> Len(e.definition) > 0 /\ all_words_match(words, e.definition[1], FALSE)

\* A slip in the order of the vector: the name-substring predicate first,
\* whole-name equality fourth.
predicatesSubstringFirst(p, e, search_term, words) ==
    CASE p = 4 -> ToLowercase(e.name) = ToLowercase(search_term)
      [] p = 2 -> all_words_match(words, e.name, TRUE)
      [] p = 3 -> \E k \in 1..Len(e.keywords) : all_words_match(words, e.keywords[k], TRUE)
      [] p = 1 -> all_words_match(words, e.name, FALSE)
      [] p = 5 -> \E k \in 1..Len(e.keywords) : all_words_match(words, e.keywords[k], FALSE)
      [] p = 6 -> Len(e.definition) > 0 /\ all_words_match(words, e.definition[1], FALSE)

\* The six boxed predicates of search, by position in the vector; words is
\* the search_words the closures capture.
predicates(p, e, search_term, words) ==
    CASE p = 1 -> ToLowercase(e.name) = ToLowercase(search_term)
      [] p = 2 -> all_words_match(words, e.name, TRUE)
      [] p = 3 -> \E k \in 1..Len(e.keywords) : all_words_match(words, e.keywords[k], TRUE)
      [] p = 4 -> all_words_match(words, e.name, FALSE)
      [] p = 5 -> \E k \in 1..Len(e.keywords) : all_words_match(words, e.keywords[k], FALSE)
      [] p = 6 -> Len(e.definition) > 0 /\ all_words_match(words, e.definition[1], FALSE)

\* predicates.len()
NumPredicates == 6

\* A search that remembers one emitted character only, the largest.
AlreadySeenLargest(seen, c) == seen # {} /\ c = CHOOSE m \in seen : \A x \in seen : x <= m

\* A search that forgets which characters it has emitted.
AlreadySeenNever(seen, c) == FALSE

\* `if !seen.insert(c) { continue; }`: the character was emitted before.
AlreadySeen(seen, c) == c \in seen

\* A limit test that stops one result short of the limit.
LimitReachedEarly(results, num_results) == Len(results) + 1 >= num_results

\* `if results.len() >= num_results { return results; }`
LimitReached(results, num_results) == Len(results) >= num_results

RECURSIVE SearchLoop(_, _, _, _, _, _, _, _)
\* The two nested loops of search, at predicate p and record i.  A result is
\* (char, &EmojiRecord): the character and the position of the record it
\* refers to.
SearchLoop(emojis, search_term, words, num_results, p, i, results, seen) ==
    IF p > NumPredicates THEN results
    ELSE IF i > Len(emojis)
    THEN SearchLoop(emojis, search_term, words, num_results, p + 1, 1, results, seen)
    ELSE IF ~predicates(p, emojis[i], search_term, words)
    THEN SearchLoop(emojis, search_term, words, num_results, p, i + 1, results, seen)
    ELSE LET c == to_char(emojis[i])
         IN  IF ~c.ok \/ AlreadySeen(seen, c.val)
             THEN SearchLoop(emojis, search_term, words, num_results, p, i + 1, results, seen)
             ELSE LET pushed == Append(results, [ch |-> c.val, rec |-> i])
                  IN  IF LimitReached(pushed, num_results) THEN pushed
                      ELSE SearchLoop(emojis, search_term, words, num_results, p, i + 1,
                                      pushed, seen \cup {c.val})

search(emojis, search_term, num_results) ==
    SearchLoop(emojis, search_term, search_words(search_term), num_results, 1, 1, <<>>, {})

\* The characters of a result list, in order.
Chars(results) == [k \in 1..Len(results) |-> results[k].ch]

----------------------------------------------------------------------------
(* Emoji records and datasets.                                             *)

\* struct EmojiRecord (shortcode is read by no operation and is left out).
EmojiRecord(name, keywords, unicode, definition) ==
    [name |-> name, keywords |-> keywords, unicode |-> unicode, definition |-> definition]

Fire == S(<<"U", "+", "1", "F", "5", "2", "5">>)
Grin == S(<<"U", "+", "1", "F", "6", "0", "0">>)
Heart == S(<<"U", "+", "2", "7", "6", "4">>)
Rocket == S(<<"1", "f", "6", "8", "0">>)
Poo == S(<<"U", "+", "1", "F", "4", "A", "9">>)
Hundred == S(<<"U", "+", "1", "F", "4", "A", "F">>)
Surrogate == S(<<"U", "+", "D", "8", "0", "0">>)

\* The records the datasets of the model are built from.  For the queries
\* "ab" and "a b" they cover each of the six tiers, two pairs of records
\* share a character, and one record has a code point that is no scalar
\* value.
Pool ==
    << EmojiRecord(S(<<"a", "b">>), <<>>, Fire, <<>>),
       EmojiRecord(S(<<"A", "b", " ", "c">>), <<S(<<"b">>)>>, Grin, <<>>),
       EmojiRecord(S(<<"a", "b", "c">>), <<S(<<"a">>), S(<<"b">>)>>, Heart, <<>>),
       EmojiRecord(S(<<"c">>), <<S(<<"b", " ", "a">>), S(<<"A", "B", "-", "c">>)>>, Fire, <<>>),
       EmojiRecord(S(<<"c">>), <<S(<<"c", "a", "b">>)>>, Rocket, <<>>),
       EmojiRecord(S(<<"z", "z">>), <<>>, Poo, <<S(<<"a", " ", "c", "a", "b">>)>>),
       EmojiRecord(S(<<"a", " ", "b">>), <<>>, Grin, <<>>),
       EmojiRecord(S(<<"A", "B">>), <<>>, Surrogate, <<>>),
       EmojiRecord(S(<<"a", "-", "b">>), <<S(<<"x">>)>>, Hundred, <<>>) >>

\* The number of records of the largest dataset handed to search.
MaxRecords == 3

\* The largest num_results / count.
MaxLimit == 3

PoolSet == {Pool[k] : k \in 1..Len(Pool)}

Datasets == UNION {[1..n -> PoolSet] : n \in 0..MaxRecords}

Queries ==
    { S(<<"a", "b">>), S(<<"a", "B">>), S(<<"a", " ", "b">>), S(<<"b">>),
      S(<<" ">>), S(<<>>) }

----------------------------------------------------------------------------
(* State.                                                                  *)
(*   catalog  the emoji records search runs over                           *)
(*   file     the persisted config file, None when it does not exist       *)
(*   last     the last call: its inputs, its result and what it printed    *)
(*   prev     the call before it                                           *)
(*   cell     the process-wide EMOJIS cell and the threads reaching for it *)
(*   proc     one run of the command line in progress, step by step        *)
(*   saves    invocations of emo -m running side by side on one file       *)

NoCall ==
    [op |-> "none", term |-> <<>>, arg |-> <<>>, count |-> 0, number |-> FALSE,
     status |-> "ok", out |-> <<>>, results |-> <<>>, searched |-> <<>>,
     wrote |-> FALSE, memo |-> <<>>]

\* What is remembered of the call before the last one, when it was on the
\* same term: a save or an erase that changed the file, with the character
\* it stored or removed.
NoChange == [op |-> "other", arg |-> <<>>, ch |-> 0]

\* `static EMOJIS: OnceLock<Vec<EmojiRecord>> = OnceLock::new()`: nothing
\* stored, no initializer running, no thread started.
NoCell ==
    [state |-> "incomplete", value |-> <<>>, inits |-> 0, source |-> <<>>,
     pc |-> <<>>, got |-> <<>>, blocked |-> {}]

\* No run of the command line in progress.
NoProc == [pc |-> "none"]

\* No invocations running side by side.
NoSaves == <<>>

\* A direct call of the library function on the dataset, as the unit tests
\* of lib.rs make: one call per behaviour.
CallSearch(q, n) ==
    /\ last.op = "none"
    /\ last' = [NoCall EXCEPT !.op = "search", !.term = q, !.count = n,
                              !.results = search(catalog, q, n),
                              !.searched = <<n>>]
    /\ UNCHANGED <<catalog, file, prev, cell, proc, saves>>

SearchInit ==
    /\ catalog \in Datasets
    /\ file = <<>>
    /\ last = NoCall
    /\ prev = NoChange
    /\ cell = NoCell
    /\ proc = NoProc
    /\ saves = NoSaves

SearchNext == \E q \in Queries, n \in 0..MaxLimit : CallSearch(q, n)

SearchSpec == SearchInit /\ [][SearchNext]_vars

----------------------------------------------------------------------------
(* The persisted config (lib.rs, EmojiMappings).                           *)

\* impl Default for EmojiMappings: the bundled default config, which has no
\* mappings and no model.
DefaultMappings == [mappings |-> <<>>, model |-> <<>>]

\* serde_json::to_writer_pretty: a char is written as a one-character string.
ToJson(m) ==
    [mappings |-> [k \in DOMAIN m.mappings |-> <<m.mappings[k]>>], model |-> m.model]

\* serde_json::from_reader: a mapping value must be a string of exactly one
\* character.
FromJson(j) ==
    IF \E k \in DOMAIN j.mappings : Len(j.mappings[k]) # 1 THEN Err("Json")
    ELSE Ok([mappings |-> [k \in DOMAIN j.mappings |-> j.mappings[k][1]], model |-> j.model])

\* EmojiMappings::load: the file's content, the default when there is no file.
Load(f) == IF f = <<>> THEN Ok(DefaultMappings) ELSE FromJson(f[1])

\* A save that writes the mappings and leaves the model out.
SaveMappingsOnly(m) == <<ToJson([m EXCEPT !.model = <<>>])>>

\* EmojiMappings::save: the whole state written back.
Save(m) == <<ToJson(m)>>

\* An insert that keeps the value a term already has.
InsertIfAbsent(m, term, ch) ==
    [m EXCEPT !.mappings =
        [k \in DOMAIN m.mappings \cup {term} |->
            IF k \in DOMAIN m.mappings THEN m.mappings[k] ELSE ch]]

\* mappings.insert(search_term, emoji_char)
Insert(m, term, ch) ==
    [m EXCEPT !.mappings =
        [k \in DOMAIN m.mappings \cup {term} |-> IF k = term THEN ch ELSE m.mappings[k]]]

\* A remove that leaves the map as it is.
RemoveNothing(m, term) == m

\* mappings.remove(search_term)
Remove(m, term) ==
    [m EXCEPT !.mappings = [k \in DOMAIN m.mappings \ {term} |-> m.mappings[k]]]

\* A lookup that never finds a mapping.
GetNothing(m, term) == <<>>

\* mappings.get(search_term).cloned()
Get(m, term) == IF term \in DOMAIN m.mappings THEN <<m.mappings[term]>> ELSE <<>>

\* A loader that admits every record of the dataset.
load_emojisUnfiltered(dataset) == dataset

\* load_emojis: the bundled dataset without the records whose unicode field
\* contains a space.
load_emojis(dataset) == SelectSeq(dataset, LAMBDA e : \A k \in DOMAIN e.unicode : e.unicode[k] # 32)

----------------------------------------------------------------------------
(* str::parse::<usize> (main.rs, is_number and handle_save).               *)

\* usize::MAX in decimal, on a 64-bit target.
UsizeMaxDigits ==
    S(<<"1", "8", "4", "4", "6", "7", "4", "4", "0", "7",
        "3", "7", "0", "9", "5", "5", "1", "6", "1", "5">>)

RECURSIVE StripZeros(_)
StripZeros(d) == IF Len(d) > 0 /\ d[1] = 48 THEN StripZeros(Tail(d)) ELSE d

RECURSIVE DigitsGreater(_, _)
\* a > b, for digit strings of the same length.
DigitsGreater(a, b) ==
    IF Len(a) = 0 THEN FALSE
    ELSE IF a[1] # b[1] THEN a[1] > b[1]
    ELSE DigitsGreater(Tail(a), Tail(b))

RECURSIVE DecimalValue(_, _)
DecimalValue(d, acc) ==
    IF Len(d) = 0 THEN acc ELSE DecimalValue(Tail(d), acc * 10 + (d[1] - 48))

\* s.parse::<usize>(): an optional '+', then at least one decimal digit, and
\* a value of at most usize::MAX.  A value of ten digits or more is kept as
\* 1000000000: every list it is compared with or indexes is shorter.
ParseUsize(s) ==
    LET digits == IF Len(s) > 0 /\ s[1] = 43 THEN Tail(s) ELSE s
        sig == StripZeros(digits)
    IN  IF Len(s) = 0 THEN Err("Empty")
        ELSE IF Len(digits) = 0 \/ \E k \in DOMAIN digits : ~IsDigit(digits[k])
        THEN Err("InvalidDigit")
        ELSE IF Len(sig) > Len(UsizeMaxDigits)
                \/ (Len(sig) = Len(UsizeMaxDigits) /\ DigitsGreater(sig, UsizeMaxDigits))
        THEN Err("PosOverflow")
        ELSE IF Len(sig) >= 10 THEN Ok(1000000000)
        ELSE Ok(DecimalValue(sig, 0))

is_number(s) == ParseUsize(s).ok

----------------------------------------------------------------------------
(* The handlers (main.rs).                                                 *)

\* try_print of one line: "{}" or "{}. {}" with an emoji, or a message.
Line(kind, num, ch) == [kind |-> kind, num |-> num, ch |-> ch]

EmojiLine(show_number, k, ch) == Line("emoji", IF show_number THEN k ELSE 0, ch)

\* print(results, show_number)
print(results, show_number) ==
    [k \in 1..Len(results) |-> EmojiLine(show_number, k, results[k].ch)]

\* get_custom_emoji
get_custom_emoji(f, search_term) ==
    LET mappings == Load(f)
    IN  IF ~mappings.ok THEN mappings ELSE Ok(Get(mappings.val, search_term))

\* A blend that asks only for the lines still to print.
BlendLimitRemaining(num_results) == num_results - 1

\* `search(&emojis, search_term, num_results + 5)`: the limit of the search
\* behind a memo.
BlendLimit(num_results) == num_results + 5

RECURSIVE BlendLoopNoFilter(_, _, _, _, _, _)
\* The loop without `if *emoji_char != custom_emoji`.
BlendLoopNoFilter(search_results, i, custom_emoji, printed_count, num_results, show_number) ==
    IF i > Len(search_results) THEN <<>>
    ELSE <<EmojiLine(show_number, printed_count + 1, search_results[i].ch)>>
         \o (IF printed_count + 1 >= num_results THEN <<>>
             ELSE BlendLoopNoFilter(search_results, i + 1, custom_emoji, printed_count + 1,
                                    num_results, show_number))

RECURSIVE BlendLoop(_, _, _, _, _, _)
\* `for (emoji_char, _) in search_results.iter()` of handle_search, at
\* result i with printed_count lines printed.
BlendLoop(search_results, i, custom_emoji, printed_count, num_results, show_number) ==
    IF i > Len(search_results) THEN <<>>
    ELSE IF search_results[i].ch # custom_emoji
    THEN <<EmojiLine(show_number, printed_count + 1, search_results[i].ch)>>
         \o (IF printed_count + 1 >= num_results THEN <<>>
             ELSE BlendLoop(search_results, i + 1, custom_emoji, printed_count + 1,
                            num_results, show_number))
    ELSE BlendLoop(search_results, i + 1, custom_emoji, printed_count,
                   num_results, show_number)

\* handle_search: the status, the lines printed, the limits search was called
\* with and the memo found.
handle_search(emojis, f, search_term, num_results, show_number) ==
    LET custom == get_custom_emoji(f, search_term)
    IN  IF ~custom.ok
        THEN [status |-> custom.err, out |-> <<>>, searched |-> <<>>, memo |-> <<>>]
        ELSE IF custom.val # <<>>
        THEN IF num_results = 1
             THEN [status |-> "ok", out |-> <<EmojiLine(show_number, 1, custom.val[1])>>,
                   searched |-> <<>>, memo |-> custom.val]
             ELSE [status |-> "ok",
                   out |-> <<EmojiLine(show_number, 1, custom.val[1])>>
                           \o BlendLoop(search(emojis, search_term, BlendLimit(num_results)),
                                        1, custom.val[1], 1, num_results, show_number),
                   searched |-> <<BlendLimit(num_results)>>, memo |-> custom.val]
        ELSE [status |-> "ok",
              out |-> print(search(emojis, search_term, num_results), show_number),
              searched |-> <<num_results>>, memo |-> <<>>]

Max(a, b) == IF a >= b THEN a ELSE b

Min(a, b) == IF a <= b THEN a ELSE b

\* The outcome of a handler that touches the file: status, lines printed,
\* the file afterwards, whether save ran, the limits search was called with.
Outcome(status, out, f, wrote, searched) ==
    [status |-> status, out |-> out, file |-> f, wrote |-> wrote, searched |-> searched]

\* The outcome of handle_erase, with what mappings.remove returned.
Erased(outcome, removed) ==
    [status |-> outcome.status, out |-> outcome.out, file |-> outcome.file,
     wrote |-> outcome.wrote, removed |-> removed]

\* An index that is ignored: the first result is taken.
ResultAtFirst(results, index) == results[1].ch

\* `let (emoji_char, _) = results[index - 1];` (sequences here start at 1).
ResultAt(results, index) == results[index].ch

\* A no-mapping erase that writes the default config back.
EraseNothingRewrites(f, search_term) ==
    Outcome("ok", <<Line("no_mapping", 0, 0)>>, Save(DefaultMappings), TRUE, <<>>)

\* The branch of handle_erase when mappings.remove returns None.
EraseNothing(f, search_term) ==
    Outcome("ok", <<Line("no_mapping", 0, 0)>>, f, FALSE, <<>>)

\* The tail of handle_save: insert, save, print the confirmation.
StoreMapping(mappings, search_term, emoji_char, searched) ==
    Outcome("ok", <<Line("saved", 0, emoji_char)>>,
            Save(Insert(mappings, search_term, emoji_char)), TRUE, searched)

\* handle_save
handle_save(emojis, f, emoji_to_save, search_term) ==
    IF search_term = <<>> \/ emoji_to_save = <<>>
    THEN Outcome("InvalidInput", <<>>, f, FALSE, <<>>)
    ELSE LET mappings == Load(f)
         IN  IF ~mappings.ok THEN Outcome(mappings.err, <<>>, f, FALSE, <<>>)
             ELSE IF is_number(emoji_to_save)
             THEN LET index == ParseUsize(emoji_to_save).val
                  IN  IF index = 0 THEN Outcome("InvalidInput", <<>>, f, FALSE, <<>>)
                      ELSE LET results == search(emojis, search_term, Max(index, 1))
                           IN  IF Len(results) < index
                               THEN Outcome("InvalidInput", <<>>, f, FALSE, <<Max(index, 1)>>)
                               ELSE StoreMapping(mappings.val, search_term,
                                                 ResultAt(results, index), <<Max(index, 1)>>)
             ELSE StoreMapping(mappings.val, search_term, emoji_to_save[1], <<>>)

\* handle_erase
handle_erase(f, search_term) ==
    IF search_term = <<>>
    THEN Erased(Outcome("InvalidInput", <<>>, f, FALSE, <<>>), <<>>)
    ELSE LET mappings == Load(f)
         IN  IF ~mappings.ok THEN Erased(Outcome(mappings.err, <<>>, f, FALSE, <<>>), <<>>)
             ELSE IF Get(mappings.val, search_term) = <<>>
             THEN Erased(EraseNothing(f, search_term), <<>>)
             ELSE Erased(Outcome("ok", <<Line("erased", 0, 0)>>,
                                 Save(Remove(mappings.val, search_term)), TRUE, <<>>),
                         Get(mappings.val, search_term))

----------------------------------------------------------------------------
(* The tiers as the specification words them, for stating the claims.      *)

\* The query split on whitespace into lowercase words.
QueryWords(q) ==
    { ToLowercase(SubSeq(q, i, j)) : <<i, j>> \in
        { ij \in (1..Len(q)) \X (1..Len(q)) :
            /\ ij[1] <= ij[2]
            /\ \A k \in ij[1]..ij[2] : ~IsWhitespace(q[k])
            /\ (ij[1] = 1 \/ IsWhitespace(q[ij[1] - 1]))
            /\ (ij[2] = Len(q) \/ IsWhitespace(q[ij[2] + 1])) } }

\* The whole words of a text, case-folded: its maximal alphanumeric runs.
WholeWords(text) ==
    { ToLowercase(SubSeq(text, i, j)) : <<i, j>> \in
        { ij \in (1..Len(text)) \X (1..Len(text)) :
            /\ ij[1] <= ij[2]
            /\ \A k \in ij[1]..ij[2] : IsAlphanumeric(text[k])
            /\ (ij[1] = 1 \/ ~IsAlphanumeric(text[ij[1] - 1]))
            /\ (ij[2] = Len(text) \/ ~IsAlphanumeric(text[ij[2] + 1])) } }

\* w is a substring of text, case-folded.
IsSubstring(w, text) ==
    \E i \in 1..(Len(text) + 1), j \in 0..Len(text) : ToLowercase(SubSeq(text, i, j)) = w

\* Tier t (1 = whole-name equality ... 6 = definition substring) admits
\* record e for query q.
Admits(t, e, q) ==
    CASE t = 1 -> ToLowercase(e.name) = ToLowercase(q)
      [] t = 2 -> \A w \in QueryWords(q) : w \in WholeWords(e.name)
      [] t = 3 -> \E k \in DOMAIN e.keywords :
                      \A w \in QueryWords(q) : w \in WholeWords(e.keywords[k])
      [] t = 4 -> \A w \in QueryWords(q) : IsSubstring(w, e.name)
      [] t = 5 -> \E k \in DOMAIN e.keywords :
                      \A w \in QueryWords(q) : IsSubstring(w, e.keywords[k])
      [] t = 6 -> e.definition # <<>> /\ \A w \in QueryWords(q) : IsSubstring(w, e.definition[1])

Tiers == 1..6

\* The lowest-numbered tier that admits e, 7 when none does.
AdmittingTier(e, q) ==
    IF \E t \in Tiers : Admits(t, e, q)
    THEN CHOOSE t \in Tiers : Admits(t, e, q) /\ \A u \in Tiers : Admits(u, e, q) => t <= u
    ELSE 7

\* The characters of the decodable records some tier admits for q.
MatchingChars(emojis, q) ==
    { to_char(emojis[k]).val : k \in
        { k \in DOMAIN emojis : to_char(emojis[k]).ok /\ AdmittingTier(emojis[k], q) <= 6 } }

----------------------------------------------------------------------------
(* Claims about search.                                                    *)

\* C1: for every catalog, query and limit >= 1, search returns at most limit
\* results and no two results carry the same character.
C1_AtMostLimitDistinct ==
    (last.op = "search" /\ last.count >= 1) =>
        /\ Len(last.results) <= last.count
        /\ \A i, j \in DOMAIN last.results :
               last.results[i].ch = last.results[j].ch => i = j

\* C1 witness: a search that filled its limit of two or more while a
\* matching record was left out because its character was already emitted.
C1_Witness ==
    /\ last.op = "search" /\ last.count >= 2
    /\ Len(last.results) = last.count
    /\ \E k \in DOMAIN catalog :
          /\ AdmittingTier(catalog[k], last.term) <= 6
          /\ to_char(catalog[k]).ok
          /\ \E i \in DOMAIN last.results :
                 last.results[i].ch = to_char(catalog[k]).val /\ last.results[i].rec # k

\* The tier that admitted the k-th result of the last search.
ResultTier(k) == AdmittingTier(catalog[last.results[k].rec], last.term)

\* C2: the results are ordered by strict tier priority: the admitting tier
\* never decreases along the list, results of one tier are in catalog order,
\* and a record whose name equals the query (case-insensitively) precedes
\* every result matched only by substring containment.
C2_TierPriorityOrder ==
    last.op = "search" =>
        \A i, j \in DOMAIN last.results :
            i < j =>
                /\ ResultTier(i) <= 6
                /\ ResultTier(i) <= ResultTier(j)
                /\ ResultTier(i) = ResultTier(j) => last.results[i].rec < last.results[j].rec
                /\ ~(Admits(1, catalog[last.results[j].rec], last.term) /\ ResultTier(i) >= 4)

\* C2 witness: a whole-name match placed first although it comes later in
\* the catalog than a substring-only match that is also in the list.
C2_Witness ==
    /\ last.op = "search"
    /\ \E i, j \in DOMAIN last.results :
          /\ i < j
          /\ ResultTier(i) = 1 /\ ResultTier(j) >= 4
          /\ last.results[i].rec > last.results[j].rec

----------------------------------------------------------------------------
(* The command line: one invocation of emo after another, each loading the *)
(* catalog afresh from the bundled dataset and the memos from the file.    *)

Boom == S(<<"U", "+", "1", "F", "4", "A", "5">>)
Star == S(<<"U", "+", "2", "B", "5", "0">>)
Sun == S(<<"U", "+", "2", "6", "0", "0">>)
Family == S(<<"U", "+", "1", "F", "4", "6", "8", " ", "U", "+", "2", "0", "0", "D">>)

\* A bundled dataset (emojis.json): for the term "ab" it has a record in
\* each tier, eight distinct characters, two records with the same
\* character, a compound record and a record that does not decode.
Bundled ==
    << EmojiRecord(S(<<"a", "b">>), <<>>, Fire, <<>>),
       EmojiRecord(S(<<"a", "b">>), <<>>, Family, <<>>),
       EmojiRecord(S(<<"c">>), <<S(<<"c", "a", "b">>)>>, Rocket, <<>>),
       EmojiRecord(S(<<"A", "b", " ", "c">>), <<S(<<"b">>)>>, Grin, <<>>),
       EmojiRecord(S(<<"c">>), <<S(<<"b", " ", "a">>), S(<<"A", "B", "-", "c">>)>>, Fire, <<>>),
       EmojiRecord(S(<<"a", "b", "c">>), <<S(<<"a">>), S(<<"b">>)>>, Heart, <<>>),
       EmojiRecord(S(<<"z", "z">>), <<>>, Poo, <<S(<<"a", " ", "c", "a", "b">>)>>),
       EmojiRecord(S(<<"a", "b", " ", "d", "d">>), <<>>, Boom, <<>>),
       EmojiRecord(S(<<"A", "B">>), <<>>, Surrogate, <<>>),
       EmojiRecord(S(<<"c">>), <<S(<<"a", "b">>)>>, Star, <<>>),
       EmojiRecord(S(<<"c">>), <<>>, Sun, <<S(<<"a", "b">>)>>) >>

\* The longest proper leading part of Bundled taken as a dataset.
MaxPrefix == 4

\* The datasets a build may bundle: the leading parts of Bundled of up to
\* MaxPrefix records, and the whole of it.
BundledDatasets == {SubSeq(Bundled, 1, n) : n \in 0..MaxPrefix} \cup {Bundled}

\* The largest -c count and the largest -m index of the command line.
MaxCount == 2

\* The search terms of the command line (the trailing arguments, joined).
Terms == { S(<<"a", "b">>), S(<<"d">>), S(<<>>) }

RECURSIVE Decimal(_)
\* k.to_string()
Decimal(k) == IF k < 10 THEN <<48 + k>> ELSE Append(Decimal(k \div 10), 48 + (k % 10))

\* The values of -m: nothing, a check mark followed by more text, the
\* indexes up to MaxCount, and usize::MAX + 1.
SaveArgs ==
    { <<>>, <<9989, 120>>,
      S(<<"1", "8", "4", "4", "6", "7", "4", "4", "0", "7",
          "3", "7", "0", "9", "5", "5", "1", "6", "1", "6">>) }
        \cup {Decimal(k) : k \in 0..MaxCount}

\* What a call on term remembers of the call l before it.
Change(l, term) ==
    IF l.term # term THEN NoChange
    ELSE IF l.op = "handle_save" /\ l.status = "ok"
    THEN [op |-> "save", arg |-> l.arg, ch |-> l.out[1].ch]
    ELSE IF l.op = "handle_erase" /\ l.wrote
    THEN [op |-> "erase", arg |-> <<>>, ch |-> l.memo[1]]
    ELSE NoChange

\* emo [-n] [-c count] term
HandleSearch(term, count, number) ==
    \E r \in {handle_search(catalog, file, term, count, number)} :
        /\ last' = [NoCall EXCEPT !.op = "handle_search", !.term = term, !.count = count,
                                  !.number = number, !.status = r.status, !.out = r.out,
                                  !.searched = r.searched, !.memo = r.memo]
        /\ prev' = Change(last, term)
        /\ UNCHANGED <<catalog, file, cell, proc, saves>>

\* emo -m arg term
HandleSave(arg, term) ==
    \E r \in {handle_save(catalog, file, arg, term)} :
        /\ last' = [NoCall EXCEPT !.op = "handle_save", !.term = term, !.arg = arg,
                                  !.status = r.status, !.out = r.out,
                                  !.searched = r.searched, !.wrote = r.wrote]
        /\ file' = r.file
        /\ prev' = Change(last, term)
        /\ UNCHANGED <<catalog, cell, proc, saves>>

\* emo -e term
HandleErase(term) ==
    \E r \in {handle_erase(file, term)} :
        /\ last' = [NoCall EXCEPT !.op = "handle_erase", !.term = term,
                                  !.status = r.status, !.out = r.out,
                                  !.wrote = r.wrote, !.memo = r.removed]
        /\ file' = r.file
        /\ prev' = Change(last, term)
        /\ UNCHANGED <<catalog, cell, proc, saves>>

Init ==
    /\ catalog \in {load_emojis(d) : d \in BundledDatasets}
    /\ file \in {<<>>, Save(DefaultMappings)}
    /\ last = NoCall
    /\ prev = NoChange
    /\ cell = NoCell
    /\ proc = NoProc
    /\ saves = NoSaves

Next ==
    \/ \E term \in Terms, count \in 0..MaxCount, number \in BOOLEAN :
           HandleSearch(term, count, number)
    \/ \E arg \in SaveArgs, term \in Terms : HandleSave(arg, term)
    \/ \E term \in Terms : HandleErase(term)

Spec == Init /\ [][Next]_vars

----------------------------------------------------------------------------
(* Claims about the memo handlers.                                         *)

\* The memo the persisted file holds for term, read from the file's JSON:
\* None, or Some(character).
MemoOf(f, term) ==
    IF f # <<>> /\ term \in DOMAIN f[1].mappings THEN f[1].mappings[term] ELSE <<>>

\* The characters of the emoji lines printed.
Emitted(out) == [k \in 1..Len(out) |-> out[k].ch]

\* The last call was handle_search on a term the file holds a memo for.
SearchedWithMemo == last.op = "handle_search" /\ MemoOf(file, last.term) # <<>>

\* C3: with a memo for the term and count == 1, handle_search emits exactly
\* one line, holding the memo character, and never invokes search.
C3_MemoAlone ==
    (SearchedWithMemo /\ last.count = 1) =>
        /\ last.status = "ok"
        /\ Len(last.out) = 1
        /\ last.out[1].kind = "emoji"
        /\ last.out[1].ch = MemoOf(file, last.term)[1]
        /\ last.searched = <<>>

\* C3 witness: the memo was emitted alone for a term the catalog has
\* matches for, none of them the memo character.
C3_Witness ==
    /\ SearchedWithMemo /\ last.count = 1
    /\ Len(last.out) = 1
    /\ MatchingChars(catalog, last.term) # {}
    /\ MemoOf(file, last.term)[1] \notin MatchingChars(catalog, last.term)

\* C4: with a memo for the term and count > 1, the first emitted character
\* is the memo, the memo appears at no later position, and no character is
\* emitted twice.
C4_MemoFirstNoRepeat ==
    (SearchedWithMemo /\ last.count > 1) =>
        /\ Len(last.out) >= 1
        /\ last.out[1].ch = MemoOf(file, last.term)[1]
        /\ \A i \in 2..Len(last.out) : last.out[i].ch # MemoOf(file, last.term)[1]
        /\ \A i, j \in DOMAIN last.out : last.out[i].ch = last.out[j].ch => i = j

\* C4 witness: a blended output of count lines whose memo is also the
\* first lexical hit for the term.
C4_Witness ==
    /\ SearchedWithMemo /\ last.count > 1
    /\ Len(last.out) = last.count
    /\ Len(search(catalog, last.term, 1)) = 1
    /\ search(catalog, last.term, 1)[1].ch = MemoOf(file, last.term)[1]

\* C5: with a memo for the term and count > 1, handle_search emits exactly
\* min(count, 1 + D) lines, D being the number of distinct non-memo
\* characters that match any tier for the term.
C5_BlendLength ==
    (SearchedWithMemo /\ last.count > 1) =>
        Len(last.out) =
            Min(last.count,
                1 + Cardinality(MatchingChars(catalog, last.term)
                                    \ {MemoOf(file, last.term)[1]}))

\* C5 witness: the memo is itself a lexical hit, the term has more matching
\* characters than the lookahead fetches, and count lines were emitted.
C5_Witness ==
    /\ SearchedWithMemo /\ last.count > 1
    /\ MemoOf(file, last.term)[1] \in MatchingChars(catalog, last.term)
    /\ Cardinality(MatchingChars(catalog, last.term)) > last.count + 5
    /\ Len(last.out) = last.count

\* C6: after handle_save(e, t) succeeded with a non-numeric, non-empty e,
\* resolving t with count == 1 yields exactly the first character of e.
C6_SaveThenLookup ==
    (last.op = "handle_search" /\ last.count = 1
        /\ prev.op = "save" /\ ~is_number(prev.arg)) =>
        /\ last.status = "ok"
        /\ Emitted(last.out) = <<prev.arg[1]>>

\* C6 witness: such a lookup for a term the catalog has matches for.
C6_Witness ==
    /\ last.op = "handle_search" /\ last.count = 1
    /\ prev.op = "save" /\ ~is_number(prev.arg)
    /\ Len(last.out) = 1
    /\ MatchingChars(catalog, last.term) # {}

\* C7 as claimed: after handle_erase(t) removed a mapping, the file has no
\* entry for t, a resolution of t returns exactly search(catalog, t, count),
\* and that resolution never returns the erased value.
C7_NeverErasedValue ==
    (last.op = "handle_search" /\ prev.op = "erase") =>
        /\ MemoOf(file, last.term) = <<>>
        /\ last.out = print(search(catalog, last.term, last.count), last.number)
        /\ \A k \in DOMAIN last.out : last.out[k].ch # prev.ch

\* C7 amended: after handle_erase(t) removed a mapping, the file has no
\* entry for t and a resolution of t returns exactly
\* search(catalog, t, count); the erased value is returned only where that
\* search yields it.
C7_EraseThenLookup ==
    (last.op = "handle_search" /\ prev.op = "erase") =>
        /\ MemoOf(file, last.term) = <<>>
        /\ last.status = "ok"
        /\ last.memo = <<>>
        /\ last.out = print(search(catalog, last.term, last.count), last.number)
        /\ \A k \in DOMAIN last.out :
               last.out[k].ch = prev.ch =>
                   \E i \in DOMAIN search(catalog, last.term, last.count) :
                       search(catalog, last.term, last.count)[i].ch = prev.ch

\* C7 witness: a resolution right after an erase whose lexical results
\* contain the erased character.
C7_Witness ==
    /\ last.op = "handle_search" /\ prev.op = "erase"
    /\ \E k \in DOMAIN last.out : last.out[k].ch = prev.ch

\* C8: handle_erase on a (non-empty) term that has no mapping is a no-op: it
\* succeeds, reports that no mapping was found, and does not write the
\* persisted state.
C8_EraseMissingIsNoOp ==
    [][(last'.op = "handle_erase" /\ last'.term # <<>> /\ MemoOf(file, last'.term) = <<>>) =>
          /\ last'.status = "ok"
          /\ last'.out = <<Line("no_mapping", 0, 0)>>
          /\ ~last'.wrote
          /\ file' = file]_vars

\* C8 witness: an erase that found nothing, over a file that holds a
\* mapping for another term.
C8_Witness ==
    /\ last.op = "handle_erase" /\ last.term # <<>>
    /\ last.out = <<Line("no_mapping", 0, 0)>>
    /\ file # <<>>
    /\ DOMAIN file[1].mappings # {}

\* A string of decimal digits.
IsDigitString(s) == Len(s) > 0 /\ \A k \in DOMAIN s : IsDigit(s[k])

\* The integer a digit string denotes; ten significant digits or more are
\* read as 1000000000, more than any search yields.
DigitStringValue(s) ==
    IF Len(StripZeros(s)) >= 10 THEN 1000000000 ELSE DecimalValue(StripZeros(s), 0)

\* C9: handle_save with an integer string k stores the k-th element of
\* search(catalog, term, k); it fails with InvalidInput when k == 0 or the
\* search yields fewer than k results, without writing the persisted state.
C9_SaveByIndex ==
    (last.op = "handle_save" /\ last.term # <<>> /\ IsDigitString(last.arg)) =>
        IF DigitStringValue(last.arg) = 0
           \/ Len(search(catalog, last.term, DigitStringValue(last.arg)))
                  < DigitStringValue(last.arg)
        THEN last.status = "InvalidInput" /\ ~last.wrote
        ELSE /\ last.status = "ok"
             /\ MemoOf(file, last.term) =
                    <<search(catalog, last.term, DigitStringValue(last.arg))
                          [DigitStringValue(last.arg)].ch>>

\* C10: the k-th element of search(catalog, term, n) is that of
\* search(catalog, term, k) for every n >= k >= 1: `-m k term` succeeds
\* exactly when the memo-less listing `-c n term` has a line k, and then
\* stores the emoji of that line.
C10_IndexMatchesListing ==
    (last.op = "handle_save" /\ last.term # <<>> /\ is_number(last.arg)
        /\ ParseUsize(last.arg).val >= 1) =>
        \A n \in ParseUsize(last.arg).val..MaxLimit :
            /\ last.status = "ok"
                   <=> Len(handle_search(catalog, <<>>, last.term, n, FALSE).out)
                           >= ParseUsize(last.arg).val
            /\ last.status = "ok" =>
                   MemoOf(file, last.term) =
                       <<handle_search(catalog, <<>>, last.term, n, FALSE)
                             .out[ParseUsize(last.arg).val].ch>>

\* C10 witness: index 2 was saved for a term whose listing with a larger
\* count is longer than two lines.
C10_Witness ==
    /\ last.op = "handle_save" /\ last.status = "ok"
    /\ is_number(last.arg) /\ ParseUsize(last.arg).val = 2
    /\ Len(handle_search(catalog, <<>>, last.term, MaxLimit, FALSE).out) > 2

----------------------------------------------------------------------------
(* The AI resolver (ai.rs): the text the engine generates.                 *)

\* encoding_rs::UTF_8.new_decoder(): no byte of a character pending.
NewDecoder == [cp |-> 0, seen |-> 0, needed |-> 0, lower |-> 128, upper |-> 191]

\* U+FFFD, which the decoder writes for a malformed sequence.
Replacement == 65533

RECURSIVE DecodeFrom(_, _, _, _)
\* decoder.decode_to_string(&token_bytes, &mut token_str, false) from byte i
\* on: the characters decoded and the decoder afterwards.  The bytes of an
\* unfinished character stay in the decoder for the next call.
DecodeFrom(bytes, i, st, out) ==
    IF i > Len(bytes) THEN [text |-> out, decoder |-> st]
    ELSE LET b == bytes[i]
         IN  IF st.needed = 0
             THEN IF b <= 127 THEN DecodeFrom(bytes, i + 1, st, Append(out, b))
                  ELSE IF b >= 194 /\ b <= 223
                  THEN DecodeFrom(bytes, i + 1,
                                  [NewDecoder EXCEPT !.needed = 1, !.cp = b % 32], out)
                  ELSE IF b >= 224 /\ b <= 239
                  THEN DecodeFrom(bytes, i + 1,
                                  [NewDecoder EXCEPT !.needed = 2, !.cp = b % 16,
                                       !.lower = IF b = 224 THEN 160 ELSE 128,
                                       !.upper = IF b = 237 THEN 159 ELSE 191], out)
                  ELSE IF b >= 240 /\ b <= 244
                  THEN DecodeFrom(bytes, i + 1,
                                  [NewDecoder EXCEPT !.needed = 3, !.cp = b % 8,
                                       !.lower = IF b = 240 THEN 144 ELSE 128,
                                       !.upper = IF b = 244 THEN 143 ELSE 191], out)
                  ELSE DecodeFrom(bytes, i + 1, st, Append(out, Replacement))
             ELSE IF b < st.lower \/ b > st.upper
             THEN DecodeFrom(bytes, i, NewDecoder, Append(out, Replacement))
             ELSE IF st.seen + 1 = st.needed
             THEN DecodeFrom(bytes, i + 1, NewDecoder, Append(out, st.cp * 64 + (b % 64)))
             ELSE DecodeFrom(bytes, i + 1,
                             [st EXCEPT !.cp = st.cp * 64 + (b % 64), !.seen = st.seen + 1,
                                        !.lower = 128, !.upper = 191], out)

\* The decoded token_str of one token and the decoder after it.
DecodeToString(decoder, token_bytes) == DecodeFrom(token_bytes, 1, decoder, <<>>)

\* char::len_utf8
LenUtf8(c) == IF c < 128 THEN 1 ELSE IF c < 2048 THEN 2 ELSE IF c < 65536 THEN 3 ELSE 4

RECURSIVE StrLen(_)
\* String::len: the length in bytes.
StrLen(s) == IF s = <<>> THEN 0 ELSE LenUtf8(s[1]) + StrLen(Tail(s))

\* is_emoji_char
is_emoji_char(ch) ==
    \/ ch >= 127744 /\ ch <= 129535
    \/ ch >= 9728 /\ ch <= 9983
    \/ ch >= 9984 /\ ch <= 10175
    \/ ch >= 126976 /\ ch <= 127023
    \/ ch >= 129648 /\ ch <= 129791

\* A scan that keeps the last emoji of a fragment.
LastEmojiIn(token_str) ==
    LET hits == SelectSeq(token_str, is_emoji_char)
    IN  IF hits = <<>> THEN <<>> ELSE <<hits[Len(hits)]>>

\* `for ch in token_str.chars() { if is_emoji_char(ch) { return .. } }`:
\* Some(the first emoji of the fragment), None when it has none.
FirstEmojiIn(token_str) ==
    LET hits == SelectSeq(token_str, is_emoji_char)
    IN  IF hits = <<>> THEN <<>> ELSE <<hits[1]>>

\* `for _ in 0..20`
MaxSteps == 20

\* `if output.len() > 50`
OutputBudget == 50

\* The tokens of the engine: the bytes token_to_bytes gives and whether
\* is_eog_token holds.
Token(bytes, eog) == [bytes |-> bytes, eog |-> eog]

TokA == Token(<<97>>, FALSE)
TokText == Token([k \in 1..26 |-> 98], FALSE)
TokFire == Token(<<240, 159, 148, 165>>, FALSE)
TokSun == Token(<<226, 152, 128>>, FALSE)
TokTextSunFire == Token(<<97, 226, 152, 128, 240, 159, 148, 165>>, FALSE)
TokLead == Token(<<240, 159>>, FALSE)
TokTail == Token(<<148, 165>>, FALSE)
TokBad == Token(<<255>>, FALSE)
TokEog == Token(<<>>, TRUE)
TokEogFire == Token(<<240, 159, 148, 165>>, TRUE)
TokLongFire == Token([k \in 1..22 |-> 98] \o <<240, 159, 148, 165>>, FALSE)

\* The tokens an engine gives rarely: long text, parts of a character, bytes
\* that are no UTF-8, an end-of-generation token that has text.
OddTokens == {TokText, TokLongFire, TokLead, TokTail, TokBad, TokEogFire}

Vocabulary == {TokA, TokFire, TokSun, TokTextSunFire, TokEog} \cup OddTokens

\* The engine produces odd tokens, and refuses a token, only among the
\* first OddWindow tokens of a run.
OddWindow == 2

----------------------------------------------------------------------------
(* select_emoji_with_exclusions (ai.rs): one call, token by token.         *)

RECURSIVE Join(_)
\* strs.join(""): the strings one after the other.
Join(strs) == IF strs = <<>> THEN <<>> ELSE Head(strs) \o Join(Tail(strs))

\* Err(EmoError::ConfigError(..)): what failed and the generated text the
\* message carries.
ConfigError(what, text) ==
    [ok |-> FALSE, val |-> <<>>, err |-> "ConfigError", what |-> what, text |-> text]

\* A failure message that leaves the generated text out.
NoEmojiFoundBare(output) == ConfigError("no_emoji", <<>>)

\* "LLM did not generate an emoji. Generated text: '{output}'"
NoEmojiFound(output) == ConfigError("no_emoji", output)

\* The call from its prompt to the start of the loop: the exclusion list it
\* was given, `output`, `decoder`, the tokens sampled and fed back so far,
\* `new_token_id` of the last iteration, the fragments decoded so far and
\* the result once it has returned.
SelectStart(exclude) ==
    [exclude |-> exclude, output |-> <<>>, decoder |-> NewDecoder, steps |-> 0,
     fed |-> 0, token |-> <<>>, fragments |-> <<>>, fault |-> "none", result |-> <<>>]

\* A setup step failed: download, load, context, tokenize, batch or decode
\* of the prompt.
SelectSetupFailed(exclude) ==
    [SelectStart(exclude) EXCEPT !.fault = "setup",
                                 !.result = <<ConfigError("setup", <<>>)>>]

\* An iteration that feeds the token back and checks the budget before it
\* looks for an emoji in the fragment.
SelectStepBudgetFirst(sel, token, fault) ==
    LET sampled == [sel EXCEPT !.steps = sel.steps + 1, !.token = <<token>>]
    IN  IF token.eog THEN [sampled EXCEPT !.result = <<NoEmojiFound(sel.output)>>]
        ELSE IF fault = "bytes"
        THEN [sampled EXCEPT !.fault = fault, !.result = <<ConfigError("token_bytes", <<>>)>>]
        ELSE LET decoded == DecodeToString(sel.decoder, token.bytes)
                 output == sel.output \o decoded.text
                 pushed == [sampled EXCEPT !.output = output, !.decoder = decoded.decoder,
                                           !.fragments = Append(sel.fragments, decoded.text)]
             IN  IF fault = "feed"
                 THEN [pushed EXCEPT !.fault = fault,
                                     !.result = <<ConfigError("feed", <<>>)>>]
                 ELSE IF StrLen(output) > OutputBudget \/ sampled.steps >= MaxSteps
                 THEN [pushed EXCEPT !.fed = sel.fed + 1,
                                     !.result = <<NoEmojiFound(output)>>]
                 ELSE IF FirstEmojiIn(decoded.text) # <<>>
                 THEN [pushed EXCEPT !.fed = sel.fed + 1,
                                     !.result = <<Ok(FirstEmojiIn(decoded.text))>>]
                 ELSE [pushed EXCEPT !.fed = sel.fed + 1]

\* One iteration of `for _ in 0..20` on the sampled token, and the return
\* after the loop when this iteration was the last.  fault is what the
\* engine refuses in this iteration: nothing, token_to_bytes, or feeding
\* the token back (batch.add, ctx.decode).
SelectStep(sel, token, fault) ==
    LET sampled == [sel EXCEPT !.steps = sel.steps + 1, !.token = <<token>>]
    IN  IF token.eog THEN [sampled EXCEPT !.result = <<NoEmojiFound(sel.output)>>]
        ELSE IF fault = "bytes"
        THEN [sampled EXCEPT !.fault = fault, !.result = <<ConfigError("token_bytes", <<>>)>>]
        ELSE LET decoded == DecodeToString(sel.decoder, token.bytes)
                 output == sel.output \o decoded.text
                 pushed == [sampled EXCEPT !.output = output, !.decoder = decoded.decoder,
                                           !.fragments = Append(sel.fragments, decoded.text)]
             IN  IF FirstEmojiIn(decoded.text) # <<>>
                 THEN [pushed EXCEPT !.result = <<Ok(FirstEmojiIn(decoded.text))>>]
                 ELSE IF fault = "feed"
                 THEN [pushed EXCEPT !.fault = fault,
                                     !.result = <<ConfigError("feed", <<>>)>>]
                 ELSE IF StrLen(output) > OutputBudget \/ sampled.steps >= MaxSteps
                 THEN [pushed EXCEPT !.fed = sel.fed + 1,
                                     !.result = <<NoEmojiFound(output)>>]
                 ELSE [pushed EXCEPT !.fed = sel.fed + 1]

Faults == {"none", "bytes", "feed"}

----------------------------------------------------------------------------
(* The handlers of main.rs that run reads no generation for.               *)

\* try_print of a line of text: an AI emoji, an AI sentence.
TextLine(text) == [kind |-> "text", num |-> 0, ch |-> 0, text |-> text]

\* try_print("  {term} -> {emoji}") of handle_list_mappings.
MappingLine(term, emoji) == [kind |-> "mapping", num |-> 0, ch |-> emoji, term |-> term]

RECURSIVE StrLess(_, _)
\* a < b for strings (Ord for String: by bytes, which is by code point).
StrLess(a, b) ==
    IF b = <<>> THEN FALSE
    ELSE IF a = <<>> THEN TRUE
    ELSE IF a[1] # b[1] THEN a[1] < b[1]
    ELSE StrLess(Tail(a), Tail(b))

\* entries.sort_by_key(|e| e.0): the terms in ascending order.
SortedTerms(terms) ==
    CHOOSE seq \in [1..Cardinality(terms) -> terms] :
        \A i, j \in 1..Cardinality(terms) : i < j => StrLess(seq[i], seq[j])

\* handle_list_mappings
handle_list_mappings(f) ==
    LET mappings == Load(f)
    IN  IF ~mappings.ok THEN [status |-> mappings.err, out |-> <<>>]
        ELSE IF DOMAIN mappings.val.mappings = {}
        THEN [status |-> "ok", out |-> <<Line("no_saved_mappings", 0, 0)>>]
        ELSE LET entries == SortedTerms(DOMAIN mappings.val.mappings)
             IN  [status |-> "ok",
                  out |-> <<Line("saved_mappings", 0, 0)>>
                          \o [k \in 1..Len(entries) |->
                                 MappingLine(entries[k], mappings.val.mappings[entries[k]])]]

\* handle_random, index being `hasher.finish() % emojis.len()` (from 1 here).
handle_random(emojis, index) ==
    IF emojis = <<>> THEN [status |-> "InvalidInput", out |-> <<>>]
    ELSE IF ~to_char(emojis[index]).ok THEN [status |-> "InvalidInput", out |-> <<>>]
    ELSE [status |-> "ok", out |-> <<Line("random", index, to_char(emojis[index]).val)>>]

\* handle_list_models: the header, then the models the registry fetched or
\* the error of the fetch.
handle_list_models(fetched) ==
    IF fetched THEN [status |-> "ok", out |-> <<Line("models", 0, 0)>>]
    ELSE [status |-> "ConfigError", out |-> <<Line("models_header", 0, 0)>>]

\* handle_define
handle_define(emojis, search_term) ==
    IF search_term = <<>> THEN [status |-> "ok", out |-> <<>>]
    ELSE LET direct == SelectSeq(emojis, LAMBDA e : to_char(e).ok /\ to_char(e).val = search_term[1])
             results == search(emojis, search_term, 1)
         IN  IF direct # <<>>
             THEN [status |-> "ok", out |-> <<Line("define", 0, search_term[1])>>]
             ELSE IF results = <<>> THEN [status |-> "ok", out |-> <<>>]
             ELSE [status |-> "ok", out |-> <<Line("define", results[1].rec, results[1].ch)>>]

----------------------------------------------------------------------------
(* run (main.rs): one invocation of the command line.                      *)

RECURSIVE JoinSpace(_)
\* cmd.search_terms.join(" ")
JoinSpace(strs) ==
    IF strs = <<>> THEN <<>>
    ELSE IF Len(strs) = 1 THEN strs[1]
    ELSE strs[1] \o <<32>> \o JoinSpace(Tail(strs))

\* The run as it starts: nothing printed, no handler called.
StartProc(cmd) ==
    [pc |-> "done", cmd |-> cmd, status |-> "ok", err |-> <<>>, stdout |-> <<>>,
     handlers |-> <<>>, sentences |-> 0, emojis |-> <<>>, exclude |-> <<>>,
     sel |-> SelectStart(<<>>), calls |-> <<>>, returned |-> <<>>, tokens |-> 0]

\* A handler that ran to its end within run: its name, status and lines.
Handled(p, name, r) ==
    [p EXCEPT !.handlers = Append(p.handlers, name), !.status = r.status,
              !.stdout = p.stdout \o r.out]

\* An AI mode that only the --ai flag selects.
IsAiModeFlagOnly(cmd) == cmd.ai

\* `_ if cmd.ai || cmd.model.is_some()`
IsAiMode(cmd) == cmd.ai \/ cmd.model # <<>>

\* handle_ai_emoji between two select calls: `for _ in 0..count`.
AdvanceEmoji(p) ==
    IF Len(p.exclude) < p.cmd.count THEN [p EXCEPT !.pc = "begin"]
    ELSE [p EXCEPT !.pc = "done", !.status = "ok"]

RECURSIVE AdvanceSentenceKeepsExclude(_)
\* A loop over the sentences that hands the exclusion list of a finished
\* sentence on to the next.
AdvanceSentenceKeepsExclude(p) ==
    IF p.sentences >= p.cmd.count THEN [p EXCEPT !.pc = "done", !.status = "ok"]
    ELSE IF Len(p.emojis) < p.cmd.sentence[1] THEN [p EXCEPT !.pc = "begin"]
    ELSE AdvanceSentenceKeepsExclude(
             [p EXCEPT !.stdout = Append(p.stdout, TextLine(Join(p.emojis))),
                       !.sentences = p.sentences + 1,
                       !.handlers = IF p.sentences + 1 < p.cmd.count
                                    THEN Append(p.handlers, "handle_ai_sentence")
                                    ELSE p.handlers,
                       !.emojis = <<>>, !.calls = <<>>])

RECURSIVE AdvanceSentence(_)
\* `(0..cmd.count).try_for_each(|_| handle_ai_sentence(..))` between two
\* select calls: the loop of generate_emoji_sentence, the print of a
\* finished sentence and the start of the next one.
AdvanceSentence(p) ==
    IF p.sentences >= p.cmd.count THEN [p EXCEPT !.pc = "done", !.status = "ok"]
    ELSE IF Len(p.emojis) < p.cmd.sentence[1] THEN [p EXCEPT !.pc = "begin"]
    ELSE AdvanceSentence(
             [p EXCEPT !.stdout = Append(p.stdout, TextLine(Join(p.emojis))),
                       !.sentences = p.sentences + 1,
                       !.handlers = IF p.sentences + 1 < p.cmd.count
                                    THEN Append(p.handlers, "handle_ai_sentence")
                                    ELSE p.handlers,
                       !.emojis = <<>>, !.exclude = <<>>, !.calls = <<>>])

\* The emoji kept for the sentence but not added to the exclusion list.
SentencePushEmojisOnly(p, emoji) == [p EXCEPT !.emojis = Append(p.emojis, emoji)]

\* `emojis.push(emoji.clone()); exclude.push(emoji);`
SentencePush(p, emoji) ==
    [p EXCEPT !.emojis = Append(p.emojis, emoji), !.exclude = Append(p.exclude, emoji)]

\* An emoji remembered but not printed when its call returns.
EmojiPushUnprinted(p, emoji) == [p EXCEPT !.exclude = Append(p.exclude, emoji)]

\* `try_print(&emoji); seen_emojis.push(emoji);` of handle_ai_emoji
EmojiPush(p, emoji) ==
    [p EXCEPT !.stdout = Append(p.stdout, TextLine(emoji)),
              !.exclude = Append(p.exclude, emoji)]

\* A failed select after which the sentence is printed as far as it got.
SelectFailedPrintsPartial(p, r) ==
    [p EXCEPT !.pc = "done", !.status = r.err, !.err = <<r>>,
              !.stdout = Append(p.stdout, TextLine(Join(p.emojis)))]

\* `select_emoji_with_exclusions(..)?` on an error: the handler and run
\* return it, main prints it to stderr.
SelectFailed(p, r) == [p EXCEPT !.pc = "done", !.status = r.err, !.err = <<r>>]

\* The return of select_emoji_with_exclusions into its caller.
SelectReturned(p, sel) ==
    LET r == sel.result[1]
        q == [p EXCEPT !.sel = sel,
                       !.calls = Append(p.calls, [exclude |-> sel.exclude, result |-> r])]
    IN  IF ~r.ok THEN SelectFailed(q, r)
        ELSE IF p.cmd.sentence # <<>>
        THEN AdvanceSentence(SentencePush([q EXCEPT !.returned = Append(q.returned, r.val)], r.val))
        ELSE AdvanceEmoji(EmojiPush([q EXCEPT !.returned = Append(q.returned, r.val)], r.val))

\* `if let Some(ref model_name) = cmd.model { load, set model, save }`
SaveModel(f, model) ==
    LET mappings == Load(f)
    IN  IF ~mappings.ok THEN Outcome(mappings.err, <<>>, f, FALSE, <<>>)
        ELSE Outcome("ok", <<>>, Save([mappings.val EXCEPT !.model = model]), TRUE, <<>>)

\* run, up to its end or to the first select call of an AI handler: the
\* process and the config file afterwards.  index and fetched are what the
\* clock and the network give handle_random and handle_list_models.
run(cmd, emojis, f, index, fetched) ==
    LET p == StartProc(cmd)
        search_term == JoinSpace(cmd.search_terms)
        saved == IF cmd.model # <<>> THEN SaveModel(f, cmd.model)
                 ELSE Outcome("ok", <<>>, f, FALSE, <<>>)
    IN  IF cmd.list_models
        THEN [proc |-> Handled(p, "handle_list_models", handle_list_models(fetched)), file |-> f]
        ELSE IF cmd.list_mappings
        THEN [proc |-> Handled(p, "handle_list_mappings", handle_list_mappings(f)), file |-> f]
        ELSE IF cmd.random
        THEN [proc |-> Handled(p, "handle_random", handle_random(emojis, index)), file |-> f]
        ELSE IF saved.status # "ok"
        THEN [proc |-> [p EXCEPT !.status = saved.status], file |-> f]
        ELSE IF cmd.search_terms = <<>>
        THEN [proc |-> [p EXCEPT !.status = "InvalidInput"], file |-> saved.file]
        ELSE IF IsAiMode(cmd)
        THEN IF cmd.sentence # <<>>
             THEN [proc |-> AdvanceSentence(
                               [p EXCEPT !.handlers = IF cmd.count > 0
                                                      THEN <<"handle_ai_sentence">> ELSE <<>>]),
                   file |-> saved.file]
             ELSE [proc |-> AdvanceEmoji([p EXCEPT !.handlers = <<"handle_ai_emoji">>]),
                   file |-> saved.file]
        ELSE IF cmd.erase
        THEN [proc |-> Handled(p, "handle_erase", handle_erase(saved.file, search_term)),
              file |-> handle_erase(saved.file, search_term).file]
        ELSE IF cmd.save # <<>>
        THEN [proc |-> Handled(p, "handle_save",
                               handle_save(emojis, saved.file, cmd.save[1], search_term)),
              file |-> handle_save(emojis, saved.file, cmd.save[1], search_term).file]
        ELSE IF cmd.define
        THEN [proc |-> Handled(p, "handle_define", handle_define(emojis, search_term)),
              file |-> saved.file]
        ELSE [proc |-> Handled(p, "handle_search",
                               handle_search(emojis, saved.file, search_term,
                                             cmd.count, cmd.number)),
              file |-> saved.file]

----------------------------------------------------------------------------
(* The command lines and the steps of a run.                               *)

\* The flag of a command line other than --ai, --model, -c, -s.
Flags == {"none", "define", "save", "erase", "list_mappings", "random", "list_models"}

\* Cli::parse(): the fields of Cli.
Cli(count, flag, ai, model, sentence, search_terms) ==
    [count |-> count, define |-> flag = "define",
     save |-> IF flag = "save" THEN <<Decimal(1)>> ELSE <<>>,
     erase |-> flag = "erase", number |-> FALSE,
     list_mappings |-> flag = "list_mappings", random |-> flag = "random",
     ai |-> ai, model |-> model, list_models |-> flag = "list_models",
     sentence |-> sentence, search_terms |-> search_terms]

\* Cli::parse() of a command line with several of the flags at once, and
\* neither --ai nor --model.
CliOf(flags, search_terms) ==
    [count |-> 1, define |-> "define" \in flags,
     save |-> IF "save" \in flags THEN <<Decimal(1)>> ELSE <<>>,
     erase |-> "erase" \in flags, number |-> FALSE,
     list_mappings |-> "list_mappings" \in flags, random |-> "random" \in flags,
     ai |-> FALSE, model |-> <<>>, list_models |-> "list_models" \in flags,
     sentence |-> <<>>, search_terms |-> search_terms]

\* The largest -c count and -s length of an AI command line.
MaxRepeat == 2

\* A model id given with --model.
ModelId == S(<<"x">>)

\* The term of the command lines, which has lexical matches in Bundled.
AbTerm == S(<<"a", "b">>)

\* The command lines: the AI ones with every count and sentence length,
\* every flag with and without --ai, --model and a search term, and every
\* set of two or more flags with a search term.
Commands ==
    { Cli(c, "none", TRUE, <<>>, s, <<AbTerm>>) :
        c \in 0..MaxRepeat, s \in {<<>>} \cup {<<n>> : n \in 0..MaxRepeat} }
    \cup
    { Cli(1, fl, a, m, <<>>, t) :
        fl \in Flags, a \in BOOLEAN, m \in {<<>>, <<ModelId>>}, t \in {<<>>, <<AbTerm>>} }
    \cup
    { CliOf(fs, <<AbTerm>>) : fs \in {x \in SUBSET (Flags \ {"none"}) : Cardinality(x) >= 2} }

\* The memo the config file of a run may hold for the term.
MemoFile == Save(Insert(DefaultMappings, AbTerm, 9989))

\* A config file with a memo for the term, a memo for another term and a
\* model.
FullFile ==
    <<ToJson([Insert(Insert(DefaultMappings, AbTerm, 9989), S(<<"d">>), 128293)
                EXCEPT !.model = <<S(<<"z">>)>>])>>

\* emo <flags> <terms>: run up to its end or to its first select call.
Run(cmd, index, fetched) ==
    /\ proc.pc = "none"
    /\ \E r \in {run(cmd, catalog, file, index, fetched)} :
           /\ proc' = r.proc
           /\ file' = r.file
    /\ UNCHANGED <<catalog, last, prev, cell, saves>>

\* select_emoji_with_exclusions from its entry to the generation loop: the
\* model, context and prompt are set up, or one of these steps fails.
SelectBegin(up) ==
    /\ proc.pc = "begin"
    /\ proc' = IF up THEN [proc EXCEPT !.pc = "sample", !.sel = SelectStart(proc.exclude)]
               ELSE SelectReturned(proc, SelectSetupFailed(proc.exclude))
    /\ UNCHANGED <<catalog, file, last, prev, cell, saves>>

\* One iteration of the generation loop on the token the sampler gives, and
\* when the call returns, its caller up to the next select call.
Sample(token, fault) ==
    /\ proc.pc = "sample"
    /\ (token \in OddTokens \/ fault # "none") => proc.tokens < OddWindow
    /\ \E sel \in {SelectStep(proc.sel, token, fault)} :
           proc' = IF sel.result = <<>>
                   THEN [proc EXCEPT !.sel = sel, !.tokens = Min(@ + 1, OddWindow)]
                   ELSE SelectReturned([proc EXCEPT !.tokens = Min(@ + 1, OddWindow)], sel)
    /\ UNCHANGED <<catalog, file, last, prev, cell, saves>>

RunInit ==
    /\ catalog = load_emojis(SubSeq(Bundled, 1, MaxPrefix))
    /\ file \in {<<>>, MemoFile}
    /\ last = NoCall
    /\ prev = NoChange
    /\ cell = NoCell
    /\ proc = NoProc
    /\ saves = NoSaves

RunNext ==
    \/ \E cmd \in Commands, index \in 1..Max(1, Len(catalog)), fetched \in BOOLEAN :
           Run(cmd, index, fetched)
    \/ \E up \in BOOLEAN : SelectBegin(up)
    \/ \E token \in Vocabulary, fault \in Faults : Sample(token, fault)

RunSpec == RunInit /\ [][RunNext]_vars

\* The runs of the command line on a config file that holds more than the
\* memo of the term.
FrameInit ==
    /\ catalog = load_emojis(SubSeq(Bundled, 1, MaxPrefix))
    /\ file = FullFile
    /\ last = NoCall
    /\ prev = NoChange
    /\ cell = NoCell
    /\ proc = NoProc
    /\ saves = NoSaves

FrameSpec == FrameInit /\ [][RunNext]_vars

----------------------------------------------------------------------------
(* Claims about the AI resolver.                                           *)

\* A select call of the run has returned, and this is its result.
Returned == proc.pc # "none" /\ proc.sel.result # <<>>

\* The emoji characters of a text, in order.
EmojisOf(text) == SelectSeq(text, is_emoji_char)

\* C11: the fragments are inspected in generation order and the characters
\* of a fragment in order; at the first character in the emoji ranges the
\* call returns that character at once: it lies in the fragment of the last
\* token sampled, every earlier fragment is free of emoji, and the last
\* token is neither followed by another sample or decode nor fed back.
C11_ReturnsFirstEmojiAtOnce ==
    (Returned /\ proc.sel.result[1].ok) =>
        /\ Len(proc.sel.fragments) = proc.sel.steps
        /\ proc.sel.fed = proc.sel.steps - 1
        /\ \A k \in 1..(Len(proc.sel.fragments) - 1) : EmojisOf(proc.sel.fragments[k]) = <<>>
        /\ EmojisOf(Join(proc.sel.fragments)) # <<>>
        /\ proc.sel.result[1].val = <<EmojisOf(Join(proc.sel.fragments))[1]>>

\* C11 witness: a call that returned on its second token or later, from a
\* fragment that holds a plain character and two emoji.
C11_Witness ==
    /\ Returned /\ proc.sel.result[1].ok
    /\ proc.sel.steps >= 2
    /\ Len(EmojisOf(proc.sel.fragments[Len(proc.sel.fragments)])) >= 2
    /\ ~is_emoji_char(proc.sel.fragments[Len(proc.sel.fragments)][1])

\* The generation of the call stopped with no emoji seen and no refusal of
\* the engine.
StoppedWithoutEmoji ==
    /\ Returned
    /\ proc.sel.fault = "none"
    /\ EmojisOf(Join(proc.sel.fragments)) = <<>>

\* C12: a call samples at most 20 tokens; when the generation stops with no
\* emoji seen (20 steps, more than 50 bytes of output, or the
\* end-of-generation token) the call fails with a ConfigError that carries
\* all the text generated so far, and it returns no character.
C12_BoundedFailsWithText ==
    proc.pc # "none" =>
        /\ proc.sel.steps <= 20
        /\ (proc.sel.result = <<>> /\ proc.pc = "sample") =>
               (proc.sel.steps < 20 /\ StrLen(Join(proc.sel.fragments)) <= 50)
        /\ StoppedWithoutEmoji =>
               /\ ~proc.sel.result[1].ok
               /\ proc.sel.result[1].err = "ConfigError"
               /\ proc.sel.result[1].text = Join(proc.sel.fragments)
               /\ \/ proc.sel.steps = 20
                  \/ StrLen(Join(proc.sel.fragments)) > 50
                  \/ Len(proc.sel.fragments) = proc.sel.steps - 1

\* C12 witness: a call stopped by the step bound with text generated.
C12_Witness ==
    /\ StoppedWithoutEmoji
    /\ proc.sel.steps = 20
    /\ Len(proc.sel.fragments) = 20
    /\ StrLen(Join(proc.sel.fragments)) <= 50
    /\ Join(proc.sel.fragments) # <<>>

\* The run went into the sentence handler of the AI mode.
InSentenceMode ==
    /\ proc.pc # "none"
    /\ proc.handlers # <<>>
    /\ proc.handlers[1] = "handle_ai_sentence"

\* C13: no emoji character occurs twice in a sentence generate_emoji_sentence
\* returned, whatever the generation does.
C13_SentenceNoRepeat ==
    InSentenceMode =>
        \A n \in DOMAIN proc.stdout :
            \A i, j \in DOMAIN proc.stdout[n].text :
                proc.stdout[n].text[i] = proc.stdout[n].text[j] => i = j

\* The values the first k calls of the list returned.
ValuesOf(calls, k) == [j \in 1..k |-> calls[j].result.val]

\* C14: in generate_emoji_sentence the k-th select call receives as its
\* exclusion list exactly the characters calls 1..k-1 returned, in call
\* order, and a finished sentence is the concatenation of exactly `length`
\* returned characters in call order.
C14_ExclusionsGrowInOrder ==
    InSentenceMode =>
        /\ \A k \in DOMAIN proc.calls :
               /\ proc.calls[k].exclude = ValuesOf(proc.calls, k - 1)
               /\ k < Len(proc.calls) => proc.calls[k].result.ok
        /\ proc.pc = "sample" => proc.sel.exclude = ValuesOf(proc.calls, Len(proc.calls))
        /\ \A n \in DOMAIN proc.stdout :
               /\ Len(proc.stdout[n].text) = proc.cmd.sentence[1]
               /\ proc.stdout[n].text =
                      Join(SubSeq(proc.returned, (n - 1) * proc.cmd.sentence[1] + 1,
                                  n * proc.cmd.sentence[1]))
        /\ (proc.pc = "done" /\ proc.status = "ok") => Len(proc.stdout) = proc.cmd.count

\* C14 witness: a second sentence of two characters is under way, its second
\* call sampling, after a first sentence was printed.
C14_Witness ==
    /\ InSentenceMode
    /\ proc.pc = "sample"
    /\ Len(proc.stdout) = 1
    /\ Len(proc.calls) = 1
    /\ Len(proc.sel.exclude) = 1

\* A select call of the sentence under way has failed.
SentenceCallFailed ==
    /\ InSentenceMode
    /\ \E k \in DOMAIN proc.calls : ~proc.calls[k].result.ok

\* C15: when a select call inside generate_emoji_sentence fails, the
\* sentence call returns that error: no later select call is made, no
\* partial sentence is returned, and nothing is printed for that sentence.
C15_FailedCallAbortsSentence ==
    SentenceCallFailed =>
        /\ ~proc.calls[Len(proc.calls)].result.ok
        /\ \A k \in 1..(Len(proc.calls) - 1) : proc.calls[k].result.ok
        /\ proc.pc = "done"
        /\ proc.status = proc.calls[Len(proc.calls)].result.err
        /\ proc.err = <<proc.calls[Len(proc.calls)].result>>
        /\ Len(proc.stdout) = proc.sentences
        /\ \A n \in DOMAIN proc.stdout : Len(proc.stdout[n].text) = proc.cmd.sentence[1]

\* C15 witness: the second call of a sentence failed after the first had
\* returned a character.
C15_Witness ==
    /\ SentenceCallFailed
    /\ Len(proc.calls) = 2
    /\ proc.emojis # <<>>

\* The emoji characters a printed line shows.
EmojiOfLine(line) ==
    IF line.kind = "text" THEN {line.text[i] : i \in DOMAIN line.text}
    ELSE IF line.kind \in {"emoji", "mapping", "random", "define"} THEN {line.ch}
    ELSE {}

\* Every line printed is a value the AI selector returned, line by line or
\* joined into sentences, and a failed select call fails the run.
OnlyAiOutput ==
    /\ \A n \in DOMAIN proc.stdout :
           /\ proc.stdout[n].kind = "text"
           /\ EmojiOfLine(proc.stdout[n])
                  \subseteq {proc.returned[k][1] : k \in DOMAIN proc.returned}
    /\ Join([n \in DOMAIN proc.stdout |-> proc.stdout[n].text])
           = Join(SubSeq(proc.returned, 1,
                         Len(Join([n \in DOMAIN proc.stdout |-> proc.stdout[n].text]))))
    /\ \A n \in DOMAIN proc.handlers :
           proc.handlers[n] \in {"handle_ai_emoji", "handle_ai_sentence"}
    /\ (\E k \in DOMAIN proc.calls : ~proc.calls[k].result.ok) =>
           (proc.pc = "done" /\ proc.status = "ConfigError")

\* C16 as claimed: with --ai or --model given, every emitted emoji is a
\* value the AI selector returned, never a memo or a lexical result, and a
\* failing selector fails the run.
C16_AiFlagsOnlyAiOutput ==
    (proc.pc # "none" /\ (proc.cmd.ai \/ proc.cmd.model # <<>>)) => OnlyAiOutput

\* C16 amended: the same, for the runs that none of --list-models,
\* --list-mappings and --random ends before the AI mode is looked at.
C16_AiBranchOnlyAiOutput ==
    (proc.pc # "none" /\ (proc.cmd.ai \/ proc.cmd.model # <<>>)
        /\ ~proc.cmd.list_models /\ ~proc.cmd.list_mappings /\ ~proc.cmd.random) =>
        OnlyAiOutput

\* C16 witness: an AI run that printed an emoji for a term that has a memo
\* in the config file and lexical matches in the catalog.
C16_Witness ==
    /\ proc.pc = "done" /\ proc.status = "ok"
    /\ proc.cmd.ai
    /\ proc.stdout # <<>>
    /\ MemoOf(file, JoinSpace(proc.cmd.search_terms)) # <<>>
    /\ search(catalog, JoinSpace(proc.cmd.search_terms), 1) # <<>>

\* C19: a run with no search term and none of --list-models,
\* --list-mappings, --random fails with InvalidInput, runs no handler and
\* leaves the persisted config as it was, whatever other flags are set.
C19_NoTermNoEffect ==
    [][(proc.pc = "none" /\ proc'.pc # "none" /\ proc'.cmd.search_terms = <<>>
          /\ ~proc'.cmd.list_models /\ ~proc'.cmd.list_mappings /\ ~proc'.cmd.random) =>
          /\ proc'.status = "InvalidInput"
          /\ proc'.handlers = <<>>
          /\ proc'.stdout = <<>>
          /\ file' = file]_vars


----------------------------------------------------------------------------
(* Claims about the size of a search result.                               *)

\* C20: for limit >= 1, search returns exactly min(limit, M) results, where
\* M is the number of distinct decodable characters among the records some
\* tier admits: the result is empty only when M = 0, and a record whose code
\* point does not decode is passed over without an error and without taking
\* a place in the result.
C20_FillsUpToMatches ==
    (last.op = "search" /\ last.count >= 1) =>
        /\ last.status = "ok"
        /\ Len(last.results) = Min(last.count, Cardinality(MatchingChars(catalog, last.term)))
        /\ \A i \in DOMAIN last.results : to_char(catalog[last.results[i].rec]).ok

\* C20 witness: a search that filled a limit of two or more although the
\* first record its query matches does not decode.
C20_Witness ==
    /\ last.op = "search" /\ last.count >= 2
    /\ Len(last.results) = last.count
    /\ \E k \in DOMAIN catalog :
          /\ AdmittingTier(catalog[k], last.term) <= 6
          /\ ~to_char(catalog[k]).ok
          /\ \A i \in DOMAIN last.results :
                 /\ last.results[i].rec > k
                 /\ AdmittingTier(catalog[last.results[i].rec], last.term)
                        >= AdmittingTier(catalog[k], last.term)


----------------------------------------------------------------------------
(* The catalog cell (lib.rs, EMOJIS and load_emojis): the dataset bundled  *)
(* at build time, the one initialization of the cell by whichever thread   *)
(* comes first, and the operations that read the catalog afterwards.       *)

HexDigits == {CodeOf(c) : c \in {"0", "1", "2", "3", "4", "5", "6", "7", "8", "9",
                                 "A", "B", "C", "D", "E", "F", "a", "b", "c", "d", "e", "f"}}

\* One code point as emojis.json writes it: "U+" and the hexadecimal digits
\* of a Unicode scalar value.
IsCodePointText(w) ==
    /\ Len(w) >= 3
    /\ SubSeq(w, 1, 2) = UPlus
    /\ \A k \in 3..Len(w) : w[k] \in HexDigits
    /\ CharFromU32(FromStrRadix16(SubSeq(w, 3, Len(w))).val).ok

\* The unicode field of a record of emojis.json: one code point, or the code
\* points of a sequence separated by single spaces.
WellFormedUnicode(unicode) ==
    LET words == SplitWhitespace(unicode)
    IN  /\ words # <<>>
        /\ JoinSpace(words) = unicode
        /\ \A k \in DOMAIN words : IsCodePointText(words[k])

Flag ==
    S(<<"U", "+", "1", "F", "1", "F", "A", " ", "U", "+", "1", "F", "1", "F", "8">>)

\* The records the source datasets are built from: two with one code point,
\* two with a sequence of code points.
SourceRecords ==
    { r \in {Bundled[k] : k \in {1, 2, 4, 9}}
              \cup {EmojiRecord(S(<<"a", "b", " ", "c">>), <<>>, Flag, <<>>)} :
        WellFormedUnicode(r.unicode) }

\* The number of records of the largest source dataset.
MaxSource == 3

\* The contents emojis.json may have: records in any order, none of them
\* twice.
SourceDatasets ==
    { d \in UNION {[1..n -> SourceRecords] : n \in 0..MaxSource} :
        \A i, j \in DOMAIN d : d[i] = d[j] => i = j }

\* The number of threads that reach for the catalog.
MaxThreads == 2

Threads == 1..MaxThreads

\* get_or_init returns the reference to the stored value.
Loaded(c, t) == [c EXCEPT !.got[t] = <<c.value>>, !.pc[t] = "loaded"]

\* An initialization that does not look at the state of the cell.
CallOnceUnguarded(c, t) == [c EXCEPT !.state = "running", !.pc[t] = "init"]

\* The slow path of get_or_init: the first thread becomes the initializer,
\* a thread that finds an initializer running blocks until it is done, a
\* thread that finds the cell complete returns its value.
CallOnce(c, t) ==
    CASE c.state = "incomplete" -> [c EXCEPT !.state = "running", !.pc[t] = "init"]
      [] c.state = "running" -> [c EXCEPT !.pc[t] = "wait", !.blocked = @ \cup {t}]
      [] c.state = "complete" -> Loaded(c, t)

\* The closure of get_or_init: parse the bundled dataset, keep the records
\* without a space, store the vector.
Initialize(c, t) ==
    Loaded([c EXCEPT !.value = load_emojis(c.source), !.inits = @ + 1,
                     !.state = "complete"], t)

\* What an operation on the loaded catalog does: its status, its output and
\* the config file it leaves.
Operate(op, emojis, f) ==
    CASE op = "search" ->
           LET r == handle_search(emojis, f, AbTerm, 2, FALSE)
           IN  [status |-> r.status, out |-> r.out, file |-> f]
      [] op = "save" ->
           LET r == handle_save(emojis, f, Decimal(1), AbTerm)
           IN  [status |-> r.status, out |-> r.out, file |-> r.file]
      [] op = "erase" ->
           LET r == handle_erase(f, AbTerm)
           IN  [status |-> r.status, out |-> r.out, file |-> r.file]
      [] op = "define" ->
           LET r == handle_define(emojis, AbTerm)
           IN  [status |-> r.status, out |-> r.out, file |-> f]
      [] op = "random" ->
           LET r == handle_random(emojis, 1)
           IN  [status |-> r.status, out |-> r.out, file |-> f]

Operations == {"search", "save", "erase", "define", "random"}

\* Thread t calls load_emojis: the fast path of get_or_init.
GetOrInit(t) ==
    /\ cell.pc[t] = "idle"
    /\ cell' = IF cell.state = "complete" THEN Loaded(cell, t)
               ELSE [cell EXCEPT !.pc[t] = "slow"]
    /\ UNCHANGED <<catalog, file, last, prev, proc, saves>>

\* Thread t enters the Once of the cell.
EnterOnce(t) ==
    /\ cell.pc[t] = "slow"
    /\ cell' = CallOnce(cell, t)
    /\ UNCHANGED <<catalog, file, last, prev, proc, saves>>

\* Thread t, the initializer, runs the closure and stores its result.
RunInitializer(t) ==
    /\ cell.pc[t] = "init"
    /\ cell' = Initialize(cell, t)
    /\ UNCHANGED <<catalog, file, last, prev, proc, saves>>

\* Thread t, blocked on the running initializer, is woken when it is done.
Wake(t) ==
    /\ cell.pc[t] = "wait"
    /\ cell.state = "complete"
    /\ cell' = Loaded(cell, t)
    /\ UNCHANGED <<catalog, file, last, prev, proc, saves>>

\* Thread t, holding the reference load_emojis returned, runs an operation
\* on it.
Use(t, op) ==
    /\ cell.pc[t] = "loaded"
    /\ \E r \in {Operate(op, cell.got[t][1], file)} :
          /\ last' = [NoCall EXCEPT !.op = op, !.term = AbTerm, !.status = r.status,
                                    !.out = r.out]
          /\ file' = r.file
    /\ cell' = [cell EXCEPT !.pc[t] = "idle"]
    /\ UNCHANGED <<catalog, prev, proc, saves>>

CatalogInit ==
    /\ catalog = <<>>
    /\ file = <<>>
    /\ last = NoCall
    /\ prev = NoChange
    /\ proc = NoProc
    /\ saves = NoSaves
    /\ cell \in {[NoCell EXCEPT !.source = d,
                                !.pc = [t \in Threads |-> "idle"],
                                !.got = [t \in Threads |-> <<>>]] : d \in SourceDatasets}

CatalogNext ==
    \E t \in Threads :
        \/ GetOrInit(t)
        \/ EnterOnce(t)
        \/ RunInitializer(t)
        \/ Wake(t)
        \/ \E op \in Operations : Use(t, op)

CatalogSpec == CatalogInit /\ [][CatalogNext]_vars

----------------------------------------------------------------------------
(* Claims about the catalog.                                               *)

\* The code points written in a unicode field.
CodePointsOf(unicode) == SplitWhitespace(unicode)

\* b is a of which some records were left out, the others in their order.
KeepsOrderOf(a, b) ==
    \E f \in [DOMAIN b -> DOMAIN a] :
        /\ \A k \in DOMAIN b : b[k] = a[f[k]]
        /\ \A j, k \in DOMAIN b : j < k => f[j] < f[k]

C18_InitializedOnce ==
    /\ [](/\ cell.inits <= 1
          /\ (cell.state = "complete") <=> (cell.inits = 1)
          /\ Cardinality({t \in DOMAIN cell.pc : cell.pc[t] = "init"}) <= 1
          /\ \A t \in DOMAIN cell.got :
                 cell.got[t] # <<>> =>
                     cell.state = "complete" /\ cell.got[t] = <<cell.value>>)
    /\ [][/\ cell.state = "complete" =>
                /\ cell'.state = "complete"
                /\ cell'.value = cell.value
                /\ cell'.inits = cell.inits
          /\ \A t \in DOMAIN cell.got :
                 cell.got[t] # <<>> => cell'.got[t] = cell.got[t]
          /\ cell'.source = cell.source]_vars

\* C18 witness: two first accesses raced, one of them blocked on the other's
\* initialization; both hold the catalog, and an operation that writes the
\* config file has run on it.
C18_Witness ==
    /\ cell.state = "complete" /\ cell.inits = 1
    /\ cell.blocked # {}
    /\ cell.value # <<>>
    /\ \A t \in DOMAIN cell.got : cell.got[t] = <<cell.value>>
    /\ last.op = "save" /\ last.status = "ok" /\ file # <<>>


----------------------------------------------------------------------------
(* Claims about deduplication and the keyword tiers of search.             *)

\* Record j is reached before record k by the scan of search for q: in an
\* earlier tier, or in the same tier and earlier in the catalog.
ReachedBefore(j, k, q) ==
    \/ AdmittingTier(catalog[j], q) < AdmittingTier(catalog[k], q)
    \/ AdmittingTier(catalog[j], q) = AdmittingTier(catalog[k], q) /\ j <= k

\* The decodable records of the catalog some tier admits for q that decode
\* to character c.
RecordsOf(c, q) ==
    { k \in DOMAIN catalog :
        /\ to_char(catalog[k]).ok /\ to_char(catalog[k]).val = c
        /\ AdmittingTier(catalog[k], q) <= 6 }

\* C21: search deduplicates by decoded character, not by record: of the
\* matching records that decode to one character exactly one result carries
\* the character, its record is the first of them the scan reaches in (tier,
\* catalog order), and no later tier emits the character again.
C21_OneResultPerCharacter ==
    (last.op = "search" /\ last.count >= 1) =>
        /\ \A i \in DOMAIN last.results :
              /\ last.results[i].rec \in RecordsOf(last.results[i].ch, last.term)
              /\ \A k \in RecordsOf(last.results[i].ch, last.term) :
                     ReachedBefore(last.results[i].rec, k, last.term)
              /\ Cardinality({j \in DOMAIN last.results :
                                 last.results[j].ch = last.results[i].ch}) = 1
        /\ Len(last.results) < last.count =>
              \A c \in MatchingChars(catalog, last.term) :
                  Cardinality({j \in DOMAIN last.results : last.results[j].ch = c}) = 1

\* C21 witness: a search that ran to the end of its scan over a catalog in
\* which a character's record of an earlier tier comes after a record of a
\* later tier with the same character; the result carries the former.
C21_Witness ==
    /\ last.op = "search" /\ last.count >= 1
    /\ Len(last.results) < last.count
    /\ \E i \in DOMAIN last.results :
          \E k \in RecordsOf(last.results[i].ch, last.term) :
              /\ k < last.results[i].rec
              /\ AdmittingTier(catalog[k], last.term)
                     > AdmittingTier(catalog[last.results[i].rec], last.term)


\* Records that differ in how their keyword entries hold the words "a" and
\* "b": as whole words of two entries, as whole words of one entry, inside
\* two entries, inside one entry.  No name or definition holds them.
KeywordPool ==
    { EmojiRecord(S(<<"c">>), <<S(<<"a">>), S(<<"b">>)>>, Star, <<>>),
      EmojiRecord(S(<<"c">>), <<S(<<"b", " ", "a">>)>>, Fire, <<>>),
      EmojiRecord(S(<<"z", "z">>), <<S(<<"x", "a">>), S(<<"b", "x">>)>>, Sun, <<>>),
      EmojiRecord(S(<<"z", "z">>), <<S(<<"x", "a", "b">>)>>, Heart, <<>>) }

KeywordDatasets == UNION {[1..n -> KeywordPool] : n \in 0..MaxRecords}

KeywordInit ==
    /\ catalog \in KeywordDatasets
    /\ file = <<>>
    /\ last = NoCall
    /\ prev = NoChange
    /\ cell = NoCell
    /\ proc = NoProc
    /\ saves = NoSaves

\* Direct calls of search on the datasets of KeywordPool.
KeywordSpec == KeywordInit /\ [][SearchNext]_vars

\* Each query word is in some keyword entry of e: as a whole word when
\* exact, anywhere in it otherwise.
EachWordInSomeEntry(e, q, exact) ==
    \A w \in QueryWords(q) : \E k \in DOMAIN e.keywords :
        IF exact THEN w \in WholeWords(e.keywords[k]) ELSE IsSubstring(w, e.keywords[k])

\* One keyword entry of e holds every query word.
OneEntryHoldsAll(e, q, exact) ==
    \E k \in DOMAIN e.keywords : \A w \in QueryWords(q) :
        IF exact THEN w \in WholeWords(e.keywords[k]) ELSE IsSubstring(w, e.keywords[k])

\* The name and definition tiers leave e out.
OnlyKeywordsCanAdmit(e, q) == \A t \in {1, 2, 4, 6} : ~Admits(t, e, q)

\* C22: the keyword tiers (3 whole-word, 5 substring) admit a record only
\* when one keyword entry holds all the query words; a record whose query
\* words are spread over several entries, none of which holds them all, is
\* matched by neither.
C22_OneKeywordHoldsAllWords ==
    (last.op = "search" /\ last.count >= 1) =>
        /\ \A k \in DOMAIN catalog :
              /\ predicates(3, catalog[k], last.term, search_words(last.term))
                     => OneEntryHoldsAll(catalog[k], last.term, TRUE)
              /\ predicates(5, catalog[k], last.term, search_words(last.term))
                     => OneEntryHoldsAll(catalog[k], last.term, FALSE)
        /\ \A i \in DOMAIN last.results :
              OnlyKeywordsCanAdmit(catalog[last.results[i].rec], last.term)
                  => OneEntryHoldsAll(catalog[last.results[i].rec], last.term, FALSE)

\* C22 witness: a search for two words that ran to the end of its scan and
\* left out a record holding each word as a whole word of a different
\* keyword entry, while it returned a record one entry of which holds both.
C22_Witness ==
    /\ last.op = "search" /\ last.count >= 1
    /\ Cardinality(QueryWords(last.term)) >= 2
    /\ Len(last.results) < last.count
    /\ \E k \in DOMAIN catalog :
          /\ EachWordInSomeEntry(catalog[k], last.term, TRUE)
          /\ ~OneEntryHoldsAll(catalog[k], last.term, FALSE)
          /\ to_char(catalog[k]).ok
          /\ \A i \in DOMAIN last.results : last.results[i].ch # to_char(catalog[k]).val
    /\ \E i \in DOMAIN last.results :
          OneEntryHoldsAll(catalog[last.results[i].rec], last.term, TRUE)


----------------------------------------------------------------------------
(* Claims about the order of a generation step.                            *)

\* The token sampled last in the call.
LastToken == proc.sel.token[1]

\* The fragment decoded last in the call.
LastFragment == proc.sel.fragments[Len(proc.sel.fragments)]

\* C24: within one generation step the order is sample, end-of-generation
\* check, decode, emoji scan, feed back, budget check, and a step is
\* complete before the next begins: an end-of-generation token stops the
\* generation before its text is inspected, and an emoji in the fragment
\* that takes the output past the budget, or in the 20th fragment, is still
\* returned as success.
C24_StepOrder ==
    (proc.pc # "none" /\ proc.sel.steps > 0) =>
        /\ proc.sel.fed <= Len(proc.sel.fragments)
        /\ Len(proc.sel.fragments) <= proc.sel.steps
        /\ proc.sel.result = <<>> =>
               /\ Len(proc.sel.fragments) = proc.sel.steps
               /\ proc.sel.fed = proc.sel.steps
        /\ (proc.sel.result # <<>> /\ LastToken.eog) =>
               /\ Len(proc.sel.fragments) = proc.sel.steps - 1
               /\ proc.sel.fed = proc.sel.steps - 1
               /\ proc.sel.result[1] = NoEmojiFound(Join(proc.sel.fragments))
        /\ (proc.sel.result # <<>> /\ ~LastToken.eog /\ proc.sel.fault = "none") =>
               /\ Len(proc.sel.fragments) = proc.sel.steps
               /\ IF EmojisOf(LastFragment) # <<>>
                  THEN /\ proc.sel.result[1] = Ok(<<EmojisOf(LastFragment)[1]>>)
                       /\ proc.sel.fed = proc.sel.steps - 1
                  ELSE /\ ~proc.sel.result[1].ok
                       /\ proc.sel.fed = proc.sel.steps
                       /\ proc.sel.steps = 20 \/ StrLen(proc.sel.output) > 50

\* C24 witness: a call returned the emoji of the fragment that took the
\* output past 50 bytes.
C24_Witness ==
    /\ Returned /\ proc.sel.result[1].ok
    /\ StrLen(proc.sel.output) > 50
    /\ proc.sel.steps >= 2

\* A call returned the emoji of its 20th fragment.
C24_TwentiethFragment ==
    /\ Returned /\ proc.sel.result[1].ok
    /\ proc.sel.steps = 20

\* A call was stopped by an end-of-generation token whose text is an emoji.
C24_EogWithEmojiText ==
    /\ Returned /\ proc.sel.token # <<>> /\ LastToken.eog
    /\ ~proc.sel.result[1].ok
    /\ \E d \in {DecodeToString(NewDecoder, LastToken.bytes)} : EmojisOf(d.text) # <<>>


----------------------------------------------------------------------------
(* Claims about the sentences of one run.                                  *)

\* The characters of the sentences printed so far.
PrintedEmojis ==
    UNION {{proc.stdout[n].text[i] : i \in 1..Len(proc.stdout[n].text)} :
             n \in DOMAIN proc.stdout}

\* C25: the exclusion list lives for one sentence: with --sentence and a
\* count above 1 every generate_emoji_sentence call starts with an empty
\* list, so the list a select call is given holds the emoji of its own
\* sentence only and nothing chosen in an earlier sentence is excluded in a
\* later one.
C25_ExclusionsPerSentence ==
    (InSentenceMode /\ proc.cmd.count > 1) =>
        /\ proc.pc \in {"begin", "sample"} =>
               /\ proc.exclude = [k \in 1..Len(proc.emojis) |-> proc.emojis[k]]
               /\ Len(proc.exclude) < proc.cmd.sentence[1]
               /\ Len(proc.exclude) = Len(proc.calls)
        /\ proc.pc = "sample" => proc.sel.exclude = proc.exclude
        /\ proc.calls # <<>> => proc.calls[1].exclude = <<>>

\* C25 witness: the first call of the second sentence was given an empty
\* list and returned an emoji the first sentence holds.
C25_Witness ==
    /\ InSentenceMode /\ proc.cmd.count > 1
    /\ proc.sentences = 1
    /\ proc.pc \in {"begin", "sample"}
    /\ Len(proc.calls) = 1
    /\ proc.calls[1].exclude = <<>>
    /\ proc.calls[1].result.ok
    /\ proc.calls[1].result.val[1] \in PrintedEmojis


----------------------------------------------------------------------------
(* Claims about the choice of the handler.                                 *)

\* The handler the precedence of the flags gives a command line, "none"
\* when the command line is rejected for want of a search term.
Chosen(cmd) ==
    IF cmd.list_models THEN "handle_list_models"
    ELSE IF cmd.list_mappings THEN "handle_list_mappings"
    ELSE IF cmd.random THEN "handle_random"
    ELSE IF cmd.search_terms = <<>> THEN "none"
    ELSE IF cmd.ai \/ cmd.model # <<>>
    THEN IF cmd.sentence # <<>> THEN "handle_ai_sentence" ELSE "handle_ai_emoji"
    ELSE IF cmd.erase THEN "handle_erase"
    ELSE IF cmd.save # <<>> THEN "handle_save"
    ELSE IF cmd.define THEN "handle_define"
    ELSE "handle_search"

\* C26 as stated: every invocation executes exactly one handler, the one the
\* precedence list-models, list-mappings, random, AI mode, erase, save,
\* define, plain search gives.
C26_ExactlyOneHandler ==
    proc.pc = "done" =>
        /\ Len(proc.handlers) = 1
        /\ proc.handlers[1] = Chosen(proc.cmd)

\* C26 amended: an invocation with an info flag or a search term executes
\* the handler of exactly one mode, chosen by the precedence list-models,
\* list-mappings, random, AI mode (--ai or --model), erase, save, define,
\* plain search: once, but handle_ai_sentence once per sentence of -c; an
\* invocation with neither executes no handler and fails.  A flag of lower
\* precedence given with a higher one has no effect: the config file is
\* written by -e and -m only when erase or save is the mode chosen.
C26_OneModeByPrecedence ==
    /\ [](proc.pc # "none" =>
            /\ \A i \in DOMAIN proc.handlers : proc.handlers[i] = Chosen(proc.cmd)
            /\ Chosen(proc.cmd) = "none" =>
                   proc.handlers = <<>> /\ proc.status = "InvalidInput"
            /\ Chosen(proc.cmd) = "handle_ai_sentence" =>
                   /\ Len(proc.handlers) <= proc.cmd.count
                   /\ (proc.pc = "done" /\ proc.status = "ok") =>
                          Len(proc.handlers) = proc.cmd.count
            /\ Chosen(proc.cmd) \notin {"none", "handle_ai_sentence"} =>
                   Len(proc.handlers) = 1)
    /\ [][(proc.pc = "none" /\ proc'.pc # "none" /\ proc'.cmd.model = <<>>) =>
            /\ Chosen(proc'.cmd) \notin {"handle_erase", "handle_save"} => file' = file
            /\ Chosen(proc'.cmd) = "handle_erase" =>
                   file' = handle_erase(file, AbTerm).file
            /\ Chosen(proc'.cmd) = "handle_save" =>
                   file' = handle_save(catalog, file, Decimal(1), AbTerm).file]_vars

\* C26 witness: the run of --ai -e on a term the config file holds a memo
\* for has ended with the AI handler only and the memo is still there.
C26_Witness ==
    /\ proc.pc = "done"
    /\ proc.cmd.ai /\ proc.cmd.erase
    /\ proc.handlers = <<"handle_ai_emoji">>
    /\ proc.status = "ok"
    /\ file = MemoFile


----------------------------------------------------------------------------
(* Claims about handle_ai_emoji.                                           *)

\* The run went into handle_ai_emoji.
InEmojiMode == proc.pc # "none" /\ proc.handlers = <<"handle_ai_emoji">>

\* C27: in AI mode without --sentence handle_ai_emoji prints each emoji as
\* soon as its select call has succeeded: when the k-th of count calls
\* fails, exactly the k-1 earlier emoji have been printed, no further call
\* is made and the invocation ends with an error.
C27_PrintsAsItGoes ==
    /\ [](InEmojiMode =>
            /\ Len(proc.returned) <= proc.cmd.count
            /\ proc.stdout = [k \in 1..Len(proc.returned) |-> TextLine(proc.returned[k])]
            /\ \A k \in DOMAIN proc.calls :
                   /\ k < Len(proc.calls) => proc.calls[k].result.ok
                   /\ proc.calls[k].result.ok => proc.calls[k].result.val = proc.returned[k]
            /\ proc.pc \in {"begin", "sample"} => Len(proc.returned) = Len(proc.calls)
            /\ (proc.pc = "done" /\ proc.status = "ok") =>
                   Len(proc.returned) = proc.cmd.count /\ proc.err = <<>>
            /\ (proc.pc = "done" /\ proc.status # "ok") =>
                   /\ proc.calls # <<>>
                   /\ ~proc.calls[Len(proc.calls)].result.ok
                   /\ Len(proc.stdout) = Len(proc.calls) - 1
                   /\ proc.err = <<proc.calls[Len(proc.calls)].result>>)
    /\ [][proc.pc # "done"]_vars

\* C27 witness: with count 2 the first call succeeded and the second failed;
\* one emoji is printed and the run has ended with the error.
C27_Witness ==
    /\ InEmojiMode /\ proc.cmd.count = 2
    /\ proc.pc = "done" /\ proc.status = "ConfigError"
    /\ Len(proc.calls) = 2
    /\ Len(proc.stdout) = 1
    /\ proc.stdout[1] = TextLine(proc.calls[1].result.val)


----------------------------------------------------------------------------
(* Claims about queries without words and about a limit of zero.           *)

\* C28: for a query that contains no words (empty, or whitespace only)
\* search returns an empty result, for every catalog and every limit >= 1.
C28_NoWordsNoResults ==
    (last.op = "search" /\ last.count >= 1 /\ SplitWhitespace(last.term) = <<>>) =>
        last.results = <<>>

\* C29: for every count >= 0, with or without a memo for the term,
\* handle_search prints at most count lines, none when count is 0 (the
\* search it makes with limit 0 returns an empty list).
C29_AtMostCountLines ==
    last.op = "handle_search" => Len(last.out) <= last.count


----------------------------------------------------------------------------
(* Claims about what a write of the config file leaves alone.              *)

\* The state a config file holds, the default when there is no file.
StateOf(f) == Load(f).val

\* Maps a and b agree on every term but t.
SameButFor(a, b, t) ==
    /\ DOMAIN a \ {t} = DOMAIN b \ {t}
    /\ \A k \in DOMAIN a \ {t} : a[k] = b[k]

\* The step is a whole run of a command line that ended with handler h.
RanHandler(h) ==
    /\ proc.pc = "none" /\ proc'.pc = "done"
    /\ proc'.handlers = <<h>> /\ proc'.status = "ok"

\* C23: a successful handle_save(e, t) changes only the entry for t of the
\* persisted state and a successful handle_erase(t) removes only the entry
\* for t: every other term's mapping and the model are the same before and
\* after; saving a model with --model leaves every mapping unchanged.
C23_WritesOnlyItsEntry ==
    [][/\ RanHandler("handle_save") =>
              /\ SameButFor(StateOf(file).mappings, StateOf(file').mappings, AbTerm)
              /\ AbTerm \in DOMAIN StateOf(file').mappings
              /\ StateOf(file').model = StateOf(file).model
       /\ RanHandler("handle_erase") =>
              /\ SameButFor(StateOf(file).mappings, StateOf(file').mappings, AbTerm)
              /\ AbTerm \notin DOMAIN StateOf(file').mappings
              /\ StateOf(file').model = StateOf(file).model
       /\ (proc.pc = "none" /\ proc'.pc # "none" /\ proc'.cmd.model # <<>>) =>
              /\ StateOf(file').mappings = StateOf(file).mappings
              /\ file' # file => StateOf(file').model = proc'.cmd.model]_vars

\* C23 witness: a save has replaced the memo of the term in a config file
\* that also holds a memo for another term and a model, and both are still
\* there.
C23_Witness ==
    /\ proc.pc = "done" /\ proc.handlers = <<"handle_save">> /\ proc.status = "ok"
    /\ file # FullFile
    /\ SameButFor(StateOf(file).mappings, StateOf(FullFile).mappings, AbTerm)
    /\ S(<<"d">>) \in DOMAIN StateOf(file).mappings
    /\ StateOf(file).model = StateOf(FullFile).model
    /\ StateOf(file).model # <<>>


----------------------------------------------------------------------------
(* Two invocations of emo -m on one config file, side by side: each loads  *)
(* the file, inserts its mapping in memory and writes the file back, and   *)
(* the steps of the two interleave.                                        *)

DTerm == S(<<"d">>)

\* emo -m <emoji> <term>, about to start.
Invocation(term, arg) ==
    [pc |-> "start", term |-> term, arg |-> arg, mappings |-> DefaultMappings,
     status |-> "ok"]

\* The config file between File::create and the end of to_writer_pretty:
\* it exists and holds no JSON yet.
TruncatedFile == <<[truncated |-> TRUE]>>

\* EmojiMappings::load on a file another invocation may be writing.
LoadShared(f) == IF f = TruncatedFile THEN Err("Json") ELSE Load(f)

\* handle_save up to `let mut mappings = EmojiMappings::load()?`.
SaveLoad(i) ==
    /\ saves[i].pc = "start"
    /\ \E mappings \in {LoadShared(file)} :
          saves' = IF mappings.ok
                   THEN [saves EXCEPT ![i].pc = "loaded", ![i].mappings = mappings.val]
                   ELSE [saves EXCEPT ![i].pc = "done", ![i].status = mappings.err]
    /\ UNCHANGED <<catalog, file, last, prev, cell, proc>>

\* mappings.insert(term, first character of the argument), then save() up
\* to File::create, which empties the file.
SaveCreate(i) ==
    /\ saves[i].pc = "loaded"
    /\ saves' = [saves EXCEPT ![i].pc = "created",
                              ![i].mappings = Insert(saves[i].mappings, saves[i].term,
                                                     saves[i].arg[1])]
    /\ file' = TruncatedFile
    /\ UNCHANGED <<catalog, last, prev, cell, proc>>

\* serde_json::to_writer_pretty(file, self): the whole state is written.
SaveWrite(i) ==
    /\ saves[i].pc = "created"
    /\ saves' = [saves EXCEPT ![i].pc = "done"]
    /\ file' = Save(saves[i].mappings)
    /\ UNCHANGED <<catalog, last, prev, cell, proc>>

\* The emoji given to -m.
SaveEmojis == {<<128293>>, <<9989>>}

SharedInit ==
    /\ catalog = <<>>
    /\ file \in {<<>>, MemoFile, FullFile}
    /\ last = NoCall
    /\ prev = NoChange
    /\ cell = NoCell
    /\ proc = NoProc
    /\ saves \in {<<Invocation(AbTerm, a), Invocation(DTerm, b)>> : a, b \in SaveEmojis}

SharedNext == \E i \in {1, 2} : SaveLoad(i) \/ SaveCreate(i) \/ SaveWrite(i)

SharedSpec == SharedInit /\ [][SharedNext]_vars

\* C30: when two save invocations for different terms run side by side on
\* one persisted state, their load and write-back steps interleaved in any
\* order, both mappings are in the persisted state after both have ended.
C30_BothMappingsKept ==
    (\A i \in DOMAIN saves : saves[i].pc = "done" /\ saves[i].status = "ok") =>
        \A i \in DOMAIN saves :
            /\ saves[i].term \in DOMAIN StateOf(file).mappings
            /\ StateOf(file).mappings[saves[i].term] = saves[i].arg[1]

====
